---- MODULE Spec2Model ----
(***************************************************************************)
(* Permission System API: the authorization decision engine                *)
(* (PermissionService), the session-token lifecycle (login, logout,        *)
(* get_current_user, revocation store) and the resource handlers.          *)
(*                                                                         *)
(* Three specifications share the state:                                   *)
(*   SpecEngine    - PermissionService.check_permission applied to         *)
(*                   database contents drawn from bounded sets;            *)
(*   SpecAuth      - tokens, the revocation store and the wall clock;      *)
(*   SpecResources - the /resources handlers over a seeded database.       *)
(***************************************************************************)
EXTENDS Integers, Sequences, FiniteSets, TLC

VARIABLES
    now,               \* wall clock, in ticks (TicksPerSecond ticks = 1 s)
    users,             \* table users: id -> row
    user_roles,        \* table user_roles, in stored order
    roles,             \* table roles: id -> row
    resources,         \* table resources: id -> row
    role_permissions,  \* table role_permissions, in stored order
    user_permissions,  \* table user_permissions (a set of rows)
    audit_logs,        \* table audit_logs: the committed rows
    session_new,       \* AuditLog objects added to the request's session, not committed
    call,              \* the last check_permission invocation and what it returned
    tokens,            \* the tokens issued so far (signed JWT payloads)
    blacklist,         \* revocation store: jti -> instant the key expires
    logged_out,        \* the jti of every token whose logout answered success
    redis_up,          \* the revocation store answers (FALSE: its calls raise)
    expansion,         \* the locals of a running _get_all_user_roles call
    sessions,          \* the service calls in flight, each in its own session
    resp               \* the last HTTP response

dbvars   == <<users, user_roles, roles, resources, role_permissions, user_permissions>>
authvars == <<tokens, blacklist, logged_out, redis_up>>
vars     == <<now, users, user_roles, roles, resources, role_permissions,
              user_permissions, audit_logs, session_new, call, tokens, blacklist,
              logged_out, redis_up, expansion, sessions, resp>>

----------------------------------------------------------------------------
(* Bounds of the model *)

\* Rows of user_permissions drawn for one (user, resource, action) triple.
MaxOverrides == 2

\* Resolution of the wall clock: ticks per second.
TicksPerSecond == 3

\* ACCESS_TOKEN_EXPIRE_MINUTES as a number of seconds, scaled down.
TokenLifetime == 2

\* The last instant of the clock, in ticks.
MaxTime == 8

\* Rows of audit_logs the resource handlers may commit.
MaxAudit == 2

----------------------------------------------------------------------------
(* Vocabulary *)

\* A nullable column holding None.
NULL == 0

Users       == {"u1", "u2"}

\* The values uuid.uuid4() yields for the jti of a token
Jtis        == {"j1", "j2"}
RoleIds     == {1, 2}
ResourceIds == {"r1", "r2"}

\* enums.py
ActionType      == {"create", "read", "update", "delete", "execute", "share"}
PermissionScope == {"own", "department", "all"}

\* resource_categories rows created by initialize_default_data
Categories == (1 :> [code |-> "documents", resource_type |-> "document"])
           @@ (2 :> [code |-> "projects",  resource_type |-> "project"])

\* departments rows created by initialize_default_data
Departments == (1 :> [code |-> "IT"]) @@ (2 :> [code |-> "HR"])

----------------------------------------------------------------------------
(* RolePermission.conditions: a nullable text column.  The text is modelled *)
(* by what json.loads makes of it.                                          *)

CondNone      == [kind |-> "none"]                        \* NULL (None)
CondEmpty     == [kind |-> "empty"]                       \* ""
CondInvalid   == [kind |-> "invalid"]                     \* not JSON: JSONDecodeError
CondArray     == [kind |-> "array"]                       \* "[1]": a list
CondObject(s) == [kind |-> "object", items |-> s]         \* a dict, items in order

JBool(b) == [t |-> "bool", b |-> b, s |-> ""]
JStr(s)  == [t |-> "str",  b |-> FALSE, s |-> s]

\* Python's ==  between a bool attribute and a decoded JSON value
PyEqBool(attr, v) == v.t = "bool" /\ v.b = attr
\* Python's ==  between a str attribute and a decoded JSON value
PyEqStr(attr, v)  == v.t = "str" /\ v.s = attr

----------------------------------------------------------------------------
(* PermissionService (src/src/core/services/permission_service.py)          *)

\* User.department: the related Department, None when the column is NULL
HasDepartment(user) ==
    users[user].department_id # NULL /\ users[user].department_id \in DOMAIN Departments

\* User.roles: the roles joined through user_roles, whatever expires_at holds
UserRoles(user) ==
    LET rows == SelectSeq(user_roles,
                          LAMBDA x : x.user_id = user /\ x.role_id \in DOMAIN roles)
    IN  [i \in 1..Len(rows) |-> rows[i].role_id]

\* Mutant of check_user_permission: the expires_at filter is left out
check_user_permission_no_expiry(user_id, resource_id, action) ==
    LET rows == {p \in user_permissions :
                    /\ p.user_id = user_id
                    /\ p.resource_id = resource_id
                    /\ p.action = action}
        first == {p \in rows : \A q \in rows : q.granted_at <= p.granted_at}
    IN  {p.is_allowed : p \in first}

\* _check_user_permission: the is_allowed of the row the query returns; the
\* empty set is None.  Rows that tie on granted_at may come back in any order.
check_user_permission(user_id, resource_id, action) ==
    LET rows == {p \in user_permissions :
                    /\ p.user_id = user_id
                    /\ p.resource_id = resource_id
                    /\ p.action = action
                    /\ (p.expires_at = NULL \/ p.expires_at > now)}
        first == {p \in rows : \A q \in rows : q.granted_at <= p.granted_at}
    IN  {p.is_allowed : p \in first}

\* _get_all_user_roles: the while loop over roles_to_process
RECURSIVE ExpandRoles(_, _, _)
ExpandRoles(roles_to_process, processed_ids, all_roles) ==
    IF roles_to_process = <<>> THEN all_roles
    ELSE LET role   == Head(roles_to_process)
             rest   == Tail(roles_to_process)
             parent == roles[role].parent_role_id
         IN  IF role \in processed_ids
             THEN ExpandRoles(rest, processed_ids, all_roles)
             ELSE ExpandRoles(
                    IF parent # NULL /\ parent \in DOMAIN roles /\ roles[parent].is_active
                    THEN Append(rest, parent) ELSE rest,
                    processed_ids \cup {role},
                    Append(all_roles, role))

get_all_user_roles(user) == ExpandRoles(UserRoles(user), {}, <<>>)

\* The sessions two concurrent requests run in
SessionIds == {"s1", "s2"}

\* No service call is in flight
NoSessions == [s \in SessionIds |-> [pc |-> "idle"]]

\* No _get_all_user_roles call is running
NoExpansion == [pc |-> "idle", user |-> "", roles_to_process |-> <<>>,
                processed_ids |-> {}, all_roles |-> <<>>]

\* _get_all_user_roles entered: the locals before the while loop
ExpansionBegin(user) ==
    [pc |-> "loop", user |-> user, roles_to_process |-> UserRoles(user),
     processed_ids |-> {}, all_roles |-> <<>>]

\* Mutant of expand_iteration: the processed_ids test is left out
expand_iteration_no_processed(e) ==
    IF e.roles_to_process = <<>> THEN [e EXCEPT !.pc = "done"]
    ELSE LET role   == Head(e.roles_to_process)
             rest   == Tail(e.roles_to_process)
             parent == roles[role].parent_role_id
         IN  [e EXCEPT
                !.roles_to_process =
                    IF parent # NULL /\ parent \in DOMAIN roles /\ roles[parent].is_active
                    THEN Append(rest, parent) ELSE rest,
                !.processed_ids = @ \cup {role},
                !.all_roles = Append(@, role)]

\* Mutant of expand_iteration: the parent is queued whether active or not
expand_iteration_inactive_too(e) ==
    IF e.roles_to_process = <<>> THEN [e EXCEPT !.pc = "done"]
    ELSE LET role   == Head(e.roles_to_process)
             rest   == Tail(e.roles_to_process)
             parent == roles[role].parent_role_id
         IN  IF role \in e.processed_ids
             THEN [e EXCEPT !.roles_to_process = rest]
             ELSE [e EXCEPT
                     !.roles_to_process =
                         IF parent # NULL /\ parent \in DOMAIN roles
                         THEN Append(rest, parent) ELSE rest,
                     !.processed_ids = @ \cup {role},
                     !.all_roles = Append(@, role)]

\* One test of the while condition and, when it holds, one turn of the loop;
\* when it fails the function returns all_roles
expand_iteration(e) ==
    IF e.roles_to_process = <<>> THEN [e EXCEPT !.pc = "done"]
    ELSE LET role   == Head(e.roles_to_process)
             rest   == Tail(e.roles_to_process)
             parent == roles[role].parent_role_id
         IN  IF role \in e.processed_ids
             THEN [e EXCEPT !.roles_to_process = rest]
             ELSE [e EXCEPT
                     !.roles_to_process =
                         IF parent # NULL /\ parent \in DOMAIN roles
                            /\ roles[parent].is_active
                         THEN Append(rest, parent) ELSE rest,
                     !.processed_ids = @ \cup {role},
                     !.all_roles = Append(@, role)]

\* sorted(all_roles, key=lambda r: r.priority, reverse=True): stable
RECURSIVE sorted_roles(_)
sorted_roles(all_roles) ==
    IF all_roles = <<>> THEN <<>>
    ELSE LET n     == Len(all_roles)
             front == sorted_roles(SubSeq(all_roles, 1, n - 1))
             x     == all_roles[n]
             k     == Cardinality({i \in 1..Len(front) :
                                   roles[front[i]].priority >= roles[x].priority})
         IN  SubSeq(front, 1, k) \o <<x>> \o SubSeq(front, k + 1, Len(front))

\* Mutant of check_scope: DEPARTMENT compares the two columns without the
\* non-null test
check_scope_null_equal(user, resource, scope) ==
    IF scope = "all" THEN TRUE
    ELSE IF scope = "own" THEN resource.owner_id = user
    ELSE IF scope = "department"
         THEN users[user].department_id = users[resource.owner_id].department_id
    ELSE FALSE

\* _check_scope
check_scope(user, resource, scope) ==
    IF scope = "all" THEN TRUE
    ELSE IF scope = "own" THEN resource.owner_id = user
    ELSE IF scope = "department"
         THEN IF users[user].department_id # NULL
                 /\ users[resource.owner_id].department_id # NULL
              THEN users[user].department_id = users[resource.owner_id].department_id
              ELSE FALSE
    ELSE FALSE

\* One item of the condition mapping: FALSE when the loop returns False on it
ConditionItemHolds(user, resource, item) ==
    IF item[1] = "resource.is_archived"
    THEN PyEqBool(resource.is_archived, item[2])
    ELSE IF item[1] = "user.department.code"
         THEN HasDepartment(user)
              /\ PyEqStr(Departments[users[user].department_id].code, item[2])
    ELSE TRUE

\* Mutant of check_conditions: one key that holds is enough
check_conditions_any_key(user, resource, conditions) ==
    IF conditions.kind \in {"none", "empty"} THEN "pass"
    ELSE IF conditions.kind = "invalid" THEN "pass"
    ELSE IF conditions.kind = "object"
         THEN IF \E i \in 1..Len(conditions.items) :
                     ConditionItemHolds(user, resource, conditions.items[i])
              THEN "pass" ELSE "fail"
    ELSE "raise"

\* _check_conditions: "pass" (True), "fail" (False), or "raise" when
\* cond_dict.items() raises AttributeError, which the except clause
\* (json.JSONDecodeError only) does not catch
check_conditions(user, resource, conditions) ==
    IF conditions.kind \in {"none", "empty"} THEN "pass"
    ELSE IF conditions.kind = "invalid" THEN "pass"
    ELSE IF conditions.kind = "object"
         THEN IF \A i \in 1..Len(conditions.items) :
                     ConditionItemHolds(user, resource, conditions.items[i])
              THEN "pass" ELSE "fail"
    ELSE "raise"

\* The rows the query of _check_role_permissions returns for one role
RoleGrants(role, resource, action) ==
    SelectSeq(role_permissions,
              LAMBDA g : /\ g.role_id = role
                         /\ g.category_id = resource.category_id
                         /\ g.action = action)

\* for perm in permissions: "none" when the loop ends without returning
RECURSIVE WalkGrants(_, _, _)
WalkGrants(permissions, user, resource) ==
    IF permissions = <<>> THEN "none"
    ELSE LET perm == Head(permissions)
             cond == check_conditions(user, resource, perm.conditions)
         IN  IF check_scope(user, resource, perm.scope)
             THEN IF cond = "raise" THEN "raise"
                  ELSE IF cond = "pass"
                       THEN (IF perm.is_allowed THEN "allow" ELSE "deny")
                  ELSE WalkGrants(Tail(permissions), user, resource)
             ELSE WalkGrants(Tail(permissions), user, resource)

\* for role in sorted_roles
RECURSIVE WalkRoles(_, _, _, _)
WalkRoles(sorted, user, resource, action) ==
    IF sorted = <<>> THEN "deny"
    ELSE LET w == WalkGrants(RoleGrants(Head(sorted), resource, action), user, resource)
         IN  IF w = "none" THEN WalkRoles(Tail(sorted), user, resource, action)
             ELSE w

\* _check_role_permissions: "allow" (True), "deny" (False) or "raise"
check_role_permissions(user, resource, action) ==
    WalkRoles(sorted_roles(get_all_user_roles(user)), user, resource, action)

\* _log_access: the AuditLog object handed to session.add; resource.category
\* is the related ResourceCategory, held here by its id
log_access(user, resource, action, success, reason) ==
    [user_id       |-> user,
     resource_id   |-> resource.id,
     action        |-> action,
     resource_type |-> Categories[resource.category].resource_type,
     success       |-> success,
     reason        |-> reason]

\* An exception leaves check_permission: nothing is returned, nothing added
Raised == [raised |-> TRUE, verdict |-> FALSE, reason |-> "", added |-> <<>>]

\* What one check_permission call returns and adds to the session.  The call
\* of _log_access is awaited with no try/except around it, and _log_access
\* has none either: on a resource whose category is None the expression
\* resource.category.resource_type raises AttributeError, which leaves
\* check_permission in place of the verdict.
Returned(user, resource, action, log_attempt, verdict, reason) ==
    IF log_attempt /\ resource.category = NULL
    THEN Raised
    ELSE [raised  |-> FALSE,
          verdict |-> verdict,
          reason  |-> reason,
          added   |-> IF log_attempt
                      THEN <<log_access(user, resource, action, verdict, reason)>>
                      ELSE <<>>]

\* Mutant of check_permission: the personal override is consulted before the
\* superuser flag
check_permission_personal_first(user, resource, action, log_attempt) ==
    LET personal_perm   == check_user_permission(user, resource.id, action)
        role_permission == check_role_permissions(user, resource, action)
    IN  IF personal_perm # {}
        THEN {Returned(user, resource, action, log_attempt, p, "personal") :
                 p \in personal_perm}
        ELSE IF users[user].is_superuser
        THEN {Returned(user, resource, action, log_attempt, TRUE, "superuser")}
        ELSE IF resource.owner_id = user
        THEN {Returned(user, resource, action, log_attempt, TRUE, "owner")}
        ELSE IF resource.is_public /\ action = "read"
        THEN {Returned(user, resource, action, log_attempt, TRUE, "public")}
        ELSE IF role_permission = "raise" THEN {Raised}
        ELSE {Returned(user, resource, action, log_attempt,
                       role_permission = "allow",
                       IF role_permission = "allow" THEN "role" ELSE "denied")}

\* Mutant of check_permission: ownership is consulted before the personal
\* override
check_permission_owner_first(user, resource, action, log_attempt) ==
    LET personal_perm   == check_user_permission(user, resource.id, action)
        role_permission == check_role_permissions(user, resource, action)
    IN  IF users[user].is_superuser
        THEN {Returned(user, resource, action, log_attempt, TRUE, "superuser")}
        ELSE IF resource.owner_id = user
        THEN {Returned(user, resource, action, log_attempt, TRUE, "owner")}
        ELSE IF personal_perm # {}
        THEN {Returned(user, resource, action, log_attempt, p, "personal") :
                 p \in personal_perm}
        ELSE IF resource.is_public /\ action = "read"
        THEN {Returned(user, resource, action, log_attempt, TRUE, "public")}
        ELSE IF role_permission = "raise" THEN {Raised}
        ELSE {Returned(user, resource, action, log_attempt,
                       role_permission = "allow",
                       IF role_permission = "allow" THEN "role" ELSE "denied")}

\* Mutant of check_permission: the role grants are consulted before ownership
check_permission_roles_first(user, resource, action, log_attempt) ==
    LET personal_perm   == check_user_permission(user, resource.id, action)
        role_permission == check_role_permissions(user, resource, action)
    IN  IF users[user].is_superuser
        THEN {Returned(user, resource, action, log_attempt, TRUE, "superuser")}
        ELSE IF personal_perm # {}
        THEN {Returned(user, resource, action, log_attempt, p, "personal") :
                 p \in personal_perm}
        ELSE IF role_permission = "raise" THEN {Raised}
        ELSE IF role_permission = "allow"
        THEN {Returned(user, resource, action, log_attempt, TRUE, "role")}
        ELSE IF resource.owner_id = user
        THEN {Returned(user, resource, action, log_attempt, TRUE, "owner")}
        ELSE IF resource.is_public /\ action = "read"
        THEN {Returned(user, resource, action, log_attempt, TRUE, "public")}
        ELSE {Returned(user, resource, action, log_attempt, FALSE, "denied")}

\* Mutant of check_permission: the public flag allows every action
check_permission_public_any(user, resource, action, log_attempt) ==
    LET personal_perm   == check_user_permission(user, resource.id, action)
        role_permission == check_role_permissions(user, resource, action)
    IN  IF users[user].is_superuser
        THEN {Returned(user, resource, action, log_attempt, TRUE, "superuser")}
        ELSE IF personal_perm # {}
        THEN {Returned(user, resource, action, log_attempt, p, "personal") :
                 p \in personal_perm}
        ELSE IF resource.owner_id = user
        THEN {Returned(user, resource, action, log_attempt, TRUE, "owner")}
        ELSE IF resource.is_public
        THEN {Returned(user, resource, action, log_attempt, TRUE, "public")}
        ELSE IF role_permission = "raise" THEN {Raised}
        ELSE {Returned(user, resource, action, log_attempt,
                       role_permission = "allow",
                       IF role_permission = "allow" THEN "role" ELSE "denied")}

\* check_permission: the set of outcomes the call can have (more than one only
\* when override rows tie on granted_at)
check_permission(user, resource, action, log_attempt) ==
    LET personal_perm   == check_user_permission(user, resource.id, action)
        role_permission == check_role_permissions(user, resource, action)
    IN  IF users[user].is_superuser
        THEN {Returned(user, resource, action, log_attempt, TRUE, "superuser")}
        ELSE IF personal_perm # {}
        THEN {Returned(user, resource, action, log_attempt, p, "personal") :
                 p \in personal_perm}
        ELSE IF resource.owner_id = user
        THEN {Returned(user, resource, action, log_attempt, TRUE, "owner")}
        ELSE IF resource.is_public /\ action = "read"
        THEN {Returned(user, resource, action, log_attempt, TRUE, "public")}
        ELSE IF role_permission = "raise" THEN {Raised}
        ELSE {Returned(user, resource, action, log_attempt,
                       role_permission = "allow",
                       IF role_permission = "allow" THEN "role" ELSE "denied")}

\* The Resource object loaded for an id, with selectinload(Resource.category)
Res(rid) == [id          |-> rid,
             owner_id    |-> resources[rid].owner_id,
             category_id |-> resources[rid].category_id,
             category    |-> resources[rid].category_id,
             is_public   |-> resources[rid].is_public,
             is_archived |-> resources[rid].is_archived]

NoCall == [user |-> "", resource |-> "", action |-> "", log_attempt |-> FALSE,
           raised |-> FALSE, verdict |-> FALSE, reason |-> ""]

CallOf(user, rid, action, log_attempt, out) ==
    [user |-> user, resource |-> rid, action |-> action, log_attempt |-> log_attempt,
     raised |-> out.raised, verdict |-> out.verdict, reason |-> out.reason]

\* Mutant of CheckPermission: the call also deletes the overrides it finds
\* expired
CheckPermission_purging(user, rid, action, log_attempt) ==
    /\ call = NoCall
    /\ session_new = <<>>
    /\ \E out \in check_permission(user, Res(rid), action, log_attempt) :
          /\ call' = CallOf(user, rid, action, log_attempt, out)
          /\ session_new' = out.added
    /\ user_permissions' = {p \in user_permissions :
                               p.expires_at = NULL \/ p.expires_at > now}
    /\ UNCHANGED <<now, users, user_roles, roles, resources, role_permissions,
                   audit_logs, authvars, expansion, sessions, resp>>

\* A caller opens a session, builds PermissionService(session) and calls
\* check_permission once.
CheckPermission(user, rid, action, log_attempt) ==
    /\ call = NoCall
    /\ session_new = <<>>
    /\ \E out \in check_permission(user, Res(rid), action, log_attempt) :
          /\ call' = CallOf(user, rid, action, log_attempt, out)
          /\ session_new' = out.added
    /\ UNCHANGED <<now, dbvars, audit_logs, authvars, expansion, sessions, resp>>

----------------------------------------------------------------------------
(* Database contents                                                        *)

UserRow(active, superuser, department) ==
    [is_active |-> active, is_superuser |-> superuser, department_id |-> department]

RoleRow(priority, active, parent) ==
    [priority |-> priority, is_active |-> active, parent_role_id |-> parent]

UserRoleRow(user, role) == [user_id |-> user, role_id |-> role, expires_at |-> NULL]

ResourceRow(owner, category, public, archived) ==
    [owner_id |-> owner, category_id |-> category, is_public |-> public,
     is_archived |-> archived, title |-> "t0"]

Grant(role, category, action, scope, allowed, conditions) ==
    [role_id |-> role, category_id |-> category, action |-> action, scope |-> scope,
     is_allowed |-> allowed, conditions |-> conditions]

Override(user, rid, action, allowed, granter, granted, expires) ==
    [user_id |-> user, resource_id |-> rid, action |-> action, is_allowed |-> allowed,
     granted_by |-> granter, granted_at |-> granted, expires_at |-> expires]

\* The grants initialize_default_data gives the role "user" on documents
UserPerms(role) ==
    << Grant(role, 1, "read",   "own", TRUE, CondNone),
       Grant(role, 1, "create", "all", TRUE, CondNone),
       Grant(role, 1, "update", "own", TRUE, CondNone),
       Grant(role, 1, "delete", "own", TRUE, CondNone) >>

\* The grant initialize_default_data gives the role "viewer" on documents,
\* with the allow flag left open
ViewerPerms(role, allowed) == << Grant(role, 1, "read", "all", allowed, CondNone) >>

----------------------------------------------------------------------------
(* SpecEngine: check_permission over drawn database contents                *)

\* Override rows for the triple (u1, r1, read): allow or deny, granted at 1 or
\* 2, never expiring, expiring at the current instant or after it
TripleRows ==
    {Override("u1", "r1", "read", b, "u2", g, e) :
        b \in BOOLEAN, g \in {1, 2}, e \in {NULL, 3, 4}}

\* Rows of other triples: another action, another user
OtherRows ==
    {Override("u1", "r1", "delete", FALSE, "u2", 2, NULL),
     Override("u2", "r1", "read",   FALSE, "u1", 2, NULL)}

OverrideTables ==
    {T \cup F : T \in {S \in SUBSET TripleRows : Cardinality(S) <= MaxOverrides},
                F \in {{}, OtherRows}}

\* Overrides on r1 vary; r2 is a second resource with the same columns as r1
\* and no override row of u1; roles and grants are the seeded viewer and user
\* roles
InitOverrides ==
    /\ \E su \in BOOLEAN :
          users = ("u1" :> UserRow(TRUE, su, 1)) @@ ("u2" :> UserRow(TRUE, FALSE, 2))
    /\ roles = (1 :> RoleRow(5, TRUE, NULL)) @@ (2 :> RoleRow(10, TRUE, NULL))
    /\ user_roles = << UserRoleRow("u1", 1), UserRoleRow("u2", 2) >>
    /\ \E owner \in Users, public \in BOOLEAN :
          resources = ("r1" :> ResourceRow(owner, 1, public, FALSE))
                   @@ ("r2" :> ResourceRow(owner, 1, public, FALSE))
    /\ \E allowed \in BOOLEAN :
          role_permissions = ViewerPerms(1, allowed) \o UserPerms(2)
    /\ user_permissions \in OverrideTables

\* Role lists, priorities, parent links and grants vary; u1 is not the owner
RoleLists ==
    { << UserRoleRow("u1", 1), UserRoleRow("u1", 2) >>,
      << UserRoleRow("u1", 2), UserRoleRow("u1", 1) >>,
      << UserRoleRow("u1", 2) >> }

GrantTables ==
    { << Grant(1, 1, "read", "all", b1, c1), Grant(r2, 1, a2, s2, b2, CondNone) >> :
        b1 \in BOOLEAN,
        c1 \in {CondNone, CondObject(<< <<"resource.is_archived", JBool(TRUE)>> >>),
                CondArray},
        r2 \in RoleIds, a2 \in {"read", "delete"}, s2 \in {"all", "own"},
        b2 \in BOOLEAN }

InitRoles ==
    /\ users = ("u1" :> UserRow(TRUE, FALSE, 1)) @@ ("u2" :> UserRow(TRUE, FALSE, 2))
    /\ \E p \in {<<10, 5>>, <<5, 10>>, <<5, 5>>}, parent \in {NULL, 1} :
          roles = (1 :> RoleRow(p[1], TRUE, NULL)) @@ (2 :> RoleRow(p[2], TRUE, parent))
    /\ user_roles \in RoleLists
    /\ (Len(user_roles) = 2 => roles[2].parent_role_id = NULL)
    /\ \E public \in BOOLEAN :
          resources = ("r1" :> ResourceRow("u2", 1, public, FALSE))
    /\ role_permissions \in GrantTables
    /\ user_permissions \in {{}, {Override("u1", "r1", "read", FALSE, "u2", 1, 3)}}

NoResponse == [op |-> "", user |-> "", resource |-> "", status |-> 0,
               success |-> FALSE, jti |-> "", checked |-> {}, reason |-> "",
               items |-> {}]

InitEngine ==
    /\ now = 3
    /\ (InitOverrides \/ InitRoles)
    /\ audit_logs = <<>>
    /\ session_new = <<>>
    /\ call = NoCall
    /\ tokens = {}
    /\ blacklist = <<>>
    /\ logged_out = {}
    /\ redis_up = TRUE
    /\ expansion = NoExpansion
    /\ sessions = NoSessions
    /\ resp = NoResponse

NextEngine ==
    \E user \in Users, rid \in DOMAIN resources, action \in ActionType,
       log_attempt \in BOOLEAN :
        CheckPermission(user, rid, action, log_attempt)

SpecEngine == InitEngine /\ [][NextEngine]_vars

----------------------------------------------------------------------------
(* Properties of the decision engine (SpecEngine)                           *)

Called == call.user # ""

CallUser     == users[call.user]
CallResource == Res(call.resource)

\* The rows of one (user, resource, action) triple
RowsOf(user, rid, action) ==
    {p \in user_permissions :
        p.user_id = user /\ p.resource_id = rid /\ p.action = action}

\* ... those that have not expired
EffectiveRows(user, rid, action) ==
    {p \in RowsOf(user, rid, action) : p.expires_at = NULL \/ now < p.expires_at}

\* ... and of those, the most recently granted
LatestRows(user, rid, action) ==
    {p \in EffectiveRows(user, rid, action) :
        \A q \in EffectiveRows(user, rid, action) : p.granted_at >= q.granted_at}

CallEffective == EffectiveRows(call.user, call.resource, call.action)

\* The call returned `verdict` with `reason`, and logged exactly that when asked
CallGave(verdict, reason) ==
    /\ ~call.raised
    /\ call.verdict = verdict
    /\ call.reason = reason
    /\ session_new = IF call.log_attempt
                     THEN << [user_id       |-> call.user,
                              resource_id   |-> call.resource,
                              action        |-> call.action,
                              resource_type |-> "document",
                              success       |-> verdict,
                              reason        |-> reason] >>
                     ELSE <<>>

\* The call's outcome is one of `outs`
CallIn(outs) ==
    \E out \in outs : /\ out.raised = call.raised
                      /\ out.verdict = call.verdict
                      /\ out.reason = call.reason

\* C1: a superuser is allowed every action on every resource with reason
\* "superuser", also when a non-expired deny override exists for the triple.
C1_SuperuserAllowed ==
    (Called /\ CallUser.is_superuser) => CallGave(TRUE, "superuser")

C1_Witness ==
    /\ Called /\ CallUser.is_superuser /\ call.log_attempt
    /\ \E p \in CallEffective : ~p.is_allowed
    /\ call.verdict /\ call.reason = "superuser"

\* C2: for a non-superuser with a non-expired override row for the triple,
\* the verdict is the is_allowed of the effective (latest non-expired) row and
\* the reason is "personal", whatever owner, is_public and role grants are.
C2_OverrideDecides ==
    (Called /\ ~CallUser.is_superuser /\ CallEffective # {})
        => \E p \in LatestRows(call.user, call.resource, call.action) :
               CallGave(p.is_allowed, "personal")

\* an owner holding a deny override is denied
C2_Witness ==
    /\ Called /\ ~CallUser.is_superuser
    /\ CallResource.owner_id = call.user
    /\ CallEffective # {} /\ \A p \in CallEffective : ~p.is_allowed
    /\ ~call.verdict /\ call.reason = "personal"

\* a non-owner holding an allow override is allowed although the matching
\* role grant denies
C2_WitnessAllow ==
    /\ Called /\ ~CallUser.is_superuser
    /\ CallResource.owner_id # call.user /\ ~CallResource.is_public
    /\ CallEffective # {} /\ \A p \in CallEffective : p.is_allowed
    /\ check_role_permissions(call.user, CallResource, call.action) = "deny"
    /\ \E i \in 1..Len(role_permissions) :
          /\ role_permissions[i].action = call.action
          /\ ~role_permissions[i].is_allowed
    /\ call.verdict /\ call.reason = "personal"

\* C3: only rows with expires_at null or later than now count and the greatest
\* granted_at among them decides; when every row of the triple is expired the
\* call answers as it does for a resource with the same columns and no row.
C3_ExpiredIgnored ==
    Called =>
      /\ (call.reason = "personal") =>
            \E p \in RowsOf(call.user, call.resource, call.action) :
               /\ p.expires_at = NULL \/ p.expires_at > now
               /\ p.is_allowed = call.verdict
               /\ \A q \in RowsOf(call.user, call.resource, call.action) :
                     (q.expires_at = NULL \/ q.expires_at > now)
                        => q.granted_at <= p.granted_at
      /\ \A twin \in DOMAIN resources :
            ( /\ resources[twin] = resources[call.resource]
              /\ RowsOf(call.user, twin, call.action) = {}
              /\ RowsOf(call.user, call.resource, call.action) # {}
              /\ CallEffective = {} )
            => CallIn(check_permission(call.user, Res(twin), call.action,
                                       call.log_attempt))

\* every row of the triple is expired, one of them a deny, and the call is
\* settled by a later rule
C3_Witness ==
    /\ Called /\ ~CallUser.is_superuser
    /\ RowsOf(call.user, call.resource, call.action) # {}
    /\ CallEffective = {}
    /\ \E p \in RowsOf(call.user, call.resource, call.action) :
          ~p.is_allowed /\ p.expires_at = now
    /\ \E twin \in DOMAIN resources :
          /\ twin # call.resource
          /\ resources[twin] = resources[call.resource]
          /\ RowsOf(call.user, twin, call.action) = {}
    /\ call.verdict /\ call.reason = "role"

\* two non-expired rows of one triple that disagree: the later grant decides
C3_WitnessLatest ==
    /\ Called /\ call.reason = "personal" /\ call.verdict
    /\ \E p, q \in CallEffective :
          p.granted_at < q.granted_at /\ ~p.is_allowed /\ q.is_allowed

\* C4: a non-superuser owner without an effective override is allowed every
\* action with reason "owner"; role grants are not consulted.
C4_OwnerAllowed ==
    (Called /\ ~CallUser.is_superuser /\ CallEffective = {}
       /\ CallResource.owner_id = call.user)
        => CallGave(TRUE, "owner")

\* the owner's role holds a matching deny grant
C4_Witness ==
    /\ Called /\ ~CallUser.is_superuser /\ CallEffective = {}
    /\ CallResource.owner_id = call.user
    /\ check_role_permissions(call.user, CallResource, call.action) = "deny"
    /\ \E i \in 1..Len(role_permissions) :
          /\ role_permissions[i].role_id \in
                {get_all_user_roles(call.user)[k] :
                    k \in 1..Len(get_all_user_roles(call.user))}
          /\ role_permissions[i].action = call.action
          /\ role_permissions[i].scope = "all"
          /\ ~role_permissions[i].is_allowed
    /\ call.verdict /\ call.reason = "owner"

\* C5: for a non-superuser non-owner without an effective override a public
\* resource is allowed with reason "public" exactly for READ; for any other
\* action the call answers as it does for the same resource with is_public
\* false, which is what the role rule gives.
C5_PublicReadOnly ==
    (Called /\ ~CallUser.is_superuser /\ CallEffective = {}
       /\ CallResource.owner_id # call.user)
        => /\ (CallResource.is_public /\ call.action = "read")
                  => CallGave(TRUE, "public")
           /\ (call.reason = "public")
                  => (CallResource.is_public /\ call.action = "read")
           /\ (call.action # "read") =>
                 /\ CallIn(check_permission(call.user,
                              [CallResource EXCEPT !.is_public = FALSE],
                              call.action, call.log_attempt))
                 /\ LET role_permission ==
                           check_role_permissions(call.user, CallResource, call.action)
                    IN  IF role_permission = "raise" THEN call.raised
                        ELSE IF role_permission = "allow"
                             THEN CallGave(TRUE, "role")
                             ELSE CallGave(FALSE, "denied")

C5_Witness ==
    /\ Called /\ ~CallUser.is_superuser /\ CallEffective = {}
    /\ CallResource.owner_id # call.user
    /\ CallResource.is_public /\ call.action = "read"
    /\ check_role_permissions(call.user, CallResource, "read") = "deny"
    /\ call.verdict /\ call.reason = "public"

\* a public resource, an action other than READ: denied by the role rule
C5_WitnessOther ==
    /\ Called /\ ~CallUser.is_superuser /\ CallEffective = {}
    /\ CallResource.owner_id # call.user
    /\ CallResource.is_public /\ call.action = "delete"
    /\ ~call.verdict /\ call.reason = "denied"

\* The role walk as the claim words it.  A candidate <<k, i>> is grant i of
\* role_permissions held by the k-th expanded role, for the resource's category
\* and the action, whose scope and condition both match; a conditions text
\* that is no mapping counts as no condition.
ConditionMatches(user, resource, conditions) ==
    IF conditions.kind = "object"
    THEN \A i \in 1..Len(conditions.items) :
             ConditionItemHolds(user, resource, conditions.items[i])
    ELSE TRUE

Candidates(user, resource, action) ==
    LET all_roles == get_all_user_roles(user)
    IN  {c \in (1..Len(all_roles)) \X (1..Len(role_permissions)) :
            LET g == role_permissions[c[2]]
            IN  /\ g.role_id = all_roles[c[1]]
                /\ g.category_id = resource.category_id
                /\ g.action = action
                /\ check_scope(user, resource, g.scope)
                /\ ConditionMatches(user, resource, g.conditions)}

\* c is walked before d: higher priority first, equal priorities in expansion
\* order, the grants of one role in stored order
WalkedBefore(user, c, d) ==
    LET all_roles == get_all_user_roles(user)
        pc == roles[all_roles[c[1]]].priority
        pd == roles[all_roles[d[1]]].priority
    IN  \/ pc > pd
        \/ pc = pd /\ c[1] < d[1]
        \/ c[1] = d[1] /\ c[2] < d[2]

RulesOneToFourSilent ==
    /\ Called /\ ~CallUser.is_superuser /\ CallEffective = {}
    /\ CallResource.owner_id # call.user
    /\ ~(CallResource.is_public /\ call.action = "read")

\* C6: when rules 1-4 do not settle the call, the first candidate of the walk
\* gives the verdict, and the verdict is deny when there is no candidate.
C6_FirstMatchingGrantDecides ==
    RulesOneToFourSilent =>
        LET cands == Candidates(call.user, CallResource, call.action)
        IN  IF cands = {} THEN CallGave(FALSE, "denied")
            ELSE \E c \in cands :
                    /\ \A d \in cands \ {c} : WalkedBefore(call.user, c, d)
                    /\ CallGave(role_permissions[c[2]].is_allowed,
                                IF role_permissions[c[2]].is_allowed
                                THEN "role" ELSE "denied")

\* The same statement for the calls that return: it fails only where
\* _check_conditions raises.
C6_WhenNothingRaises ==
    (RulesOneToFourSilent /\ ~call.raised) =>
        LET cands == Candidates(call.user, CallResource, call.action)
        IN  IF cands = {} THEN CallGave(FALSE, "denied")
            ELSE \E c \in cands :
                    /\ \A d \in cands \ {c} : WalkedBefore(call.user, c, d)
                    /\ CallGave(role_permissions[c[2]].is_allowed,
                                IF role_permissions[c[2]].is_allowed
                                THEN "role" ELSE "denied")

\* The rule that settles a call, as the claims name the rules: a role grant
\* settles it when the walk has a candidate, allow or deny
SettlingRule ==
    IF CallUser.is_superuser THEN "superuser"
    ELSE IF CallEffective # {} THEN "personal"
    ELSE IF CallResource.owner_id = call.user THEN "owner"
    ELSE IF CallResource.is_public /\ call.action = "read" THEN "public"
    ELSE IF Candidates(call.user, CallResource, call.action) # {} THEN "role"
    ELSE "denied"

\* The AuditLog entries the call added to its session
CallAdded(reason) ==
    IF call.log_attempt
    THEN << [user_id       |-> call.user,
             resource_id   |-> call.resource,
             action        |-> call.action,
             resource_type |-> "document",
             success       |-> call.verdict,
             reason        |-> reason] >>
    ELSE <<>>

\* The same call with the other value of log_attempt returns the same verdict
SameVerdictOtherwise ==
    \E out \in check_permission(call.user, CallResource, call.action,
                                ~call.log_attempt) :
        ~out.raised /\ out.verdict = call.verdict

\* C11: a call with log_attempt = true returns and adds exactly one entry,
\* whose success is the verdict and whose reason names the settling rule
\* ("role" whenever a role grant settled it); a call with log_attempt = false
\* adds none; both return the same verdict.
C11_OneEntryNamingTheRule ==
    Called => /\ ~call.raised
              /\ session_new = CallAdded(SettlingRule)
              /\ SameVerdictOtherwise

\* What holds of the code: the calls that return add one entry whose reason
\* is the tag the code chose, which is "denied" also when a deny grant of a
\* role settled the call.
C11_WhenNothingRaises ==
    (Called /\ ~call.raised) =>
        /\ session_new = CallAdded(call.reason)
        /\ SameVerdictOtherwise
        /\ call.reason = IF SettlingRule = "role" /\ ~call.verdict
                         THEN "denied" ELSE SettlingRule

----------------------------------------------------------------------------
(* Tokens (src/src/core/security.py, src/src/core/dependencies.py,          *)
(* src/src/core/dependecies.py, src/src/api/auth.py, src/app.py)            *)

\* int(x) for x = n / d with d > 0: truncation toward zero
IntTrunc(n, d) == IF n >= 0 THEN n \div d ELSE -((-n) \div d)

\* create_access_token: jwt.encode writes exp as whole seconds, the fraction of
\* utcnow() + timedelta(minutes=ACCESS_TOKEN_EXPIRE_MINUTES) dropped
create_access_token(sub, jti) ==
    [sub |-> sub, jti |-> jti, iat |-> now \div TicksPerSecond,
     exp |-> (now \div TicksPerSecond) + TokenLifetime, signed |-> TRUE]

\* Mutant of decode_token: a token is still accepted at the instant exp
decode_token_until_exp(token) ==
    IF ~token.signed THEN "DecodeError"
    ELSE IF token.exp * TicksPerSecond < now THEN "ExpiredSignatureError"
    ELSE "ok"

\* decode_token: jwt.decode checks the signature, then exp against the clock
decode_token(token) ==
    IF ~token.signed THEN "DecodeError"
    ELSE IF token.exp * TicksPerSecond <= now THEN "ExpiredSignatureError"
    ELSE "ok"

\* is_token_blacklisted: redis EXISTS; a key set with setex is gone once its
\* time to live has passed
is_token_blacklisted(jti) ==
    jti \in DOMAIN blacklist /\ now <= blacklist[jti]

\* blacklist_token: redis SETEX key ttl 1
blacklist_token(jti, ttl) ==
    (jti :> now + ttl * TicksPerSecond) @@ blacklist

Unauthorized == [status |-> 401, user |-> ""]

\* An exception of the Redis client leaves the dependency: no actor, and
\* FastAPI answers 500
Unavailable == [status |-> 500, user |-> ""]

\* Mutant of get_current_user: the is_active test is left out
get_current_user_any_user(token) ==
    IF decode_token(token) # "ok" THEN Unauthorized
    ELSE IF ~redis_up THEN Unavailable
    ELSE IF is_token_blacklisted(token.jti) THEN Unauthorized
    ELSE IF token.sub \notin DOMAIN users THEN Unauthorized
    ELSE [status |-> 200, user |-> token.sub]

\* Mutant of get_current_user: a failing existence check counts as "not
\* revoked"
get_current_user_fail_open(token) ==
    IF decode_token(token) # "ok" THEN Unauthorized
    ELSE IF redis_up /\ is_token_blacklisted(token.jti) THEN Unauthorized
    ELSE IF token.sub \notin DOMAIN users \/ ~users[token.sub].is_active
         THEN Unauthorized
    ELSE [status |-> 200, user |-> token.sub]

\* get_current_user of src/src/core/dependencies.py
get_current_user(token) ==
    IF decode_token(token) # "ok" THEN Unauthorized
    ELSE IF ~redis_up THEN Unavailable
    ELSE IF is_token_blacklisted(token.jti) THEN Unauthorized
    ELSE IF token.sub \notin DOMAIN users \/ ~users[token.sub].is_active
         THEN Unauthorized
    ELSE [status |-> 200, user |-> token.sub]

\* get_current_user of src/src/core/dependecies.py, which src/app.py imports
app_get_current_user(token) ==
    IF decode_token(token) # "ok" THEN Unauthorized
    ELSE IF ~redis_up THEN Unavailable
    ELSE IF token.jti \in DOMAIN blacklist /\ now <= blacklist[token.jti]
         THEN Unauthorized
    ELSE IF token.sub \notin DOMAIN users \/ ~users[token.sub].is_active
         THEN Unauthorized
    ELSE [status |-> 200, user |-> token.sub]

Response(op, user, status, success, jti) ==
    [op |-> op, user |-> user, resource |-> "", status |-> status,
     success |-> success, jti |-> jti, checked |-> {}, reason |-> "",
     items |-> {}]

\* POST /auth/login (and POST /login of src/app.py, the same tests in one line)
login_user(email, password_ok) ==
    /\ IF email \notin DOMAIN users \/ ~users[email].is_active \/ ~password_ok
       THEN /\ resp' = Response("login", email, 200, FALSE, "")
            /\ UNCHANGED tokens
       ELSE /\ {t.jti : t \in tokens} # Jtis
            /\ LET jti == CHOOSE j \in Jtis : j \notin {t.jti : t \in tokens}
               IN  /\ tokens' = tokens \cup {create_access_token(email, jti)}
                   /\ resp' = Response("login", email, 200, TRUE, jti)
    /\ UNCHANGED <<now, dbvars, audit_logs, session_new, call, expansion, sessions, blacklist, logged_out,
                   redis_up>>

\* Mutant of Revoke: logout blacklists every token of the subject
Revoke_every_token(op, token) ==
    LET mine == {t.jti : t \in {u \in tokens : u.sub = token.sub}}
    IN  /\ blacklist' = [j \in DOMAIN blacklist \cup mine |->
                            IF j \in mine THEN now + TokenLifetime * TicksPerSecond
                            ELSE blacklist[j]]
        /\ logged_out' = logged_out \cup {token.jti}
        /\ resp' = Response(op, token.sub, 200, TRUE, token.jti)

\* The body both logout handlers share once the token is decoded; an
\* exception of redis setex ends the request with status 500
Revoke(op, token) ==
    LET ttl == IntTrunc(token.exp * TicksPerSecond - now, TicksPerSecond)
    IN  IF ttl > 0 /\ ~redis_up
        THEN /\ resp' = Response(op, token.sub, 500, FALSE, token.jti)
             /\ UNCHANGED <<blacklist, logged_out>>
        ELSE /\ IF ttl <= 0
                THEN UNCHANGED blacklist
                ELSE blacklist' = blacklist_token(token.jti, ttl)
             /\ logged_out' = logged_out \cup {token.jti}
             /\ resp' = Response(op, token.sub, 200, TRUE, token.jti)

\* POST /auth/logout
logout_user(token) ==
    /\ IF decode_token(token) # "ok"
       THEN /\ resp' = Response("logout", token.sub, 401, FALSE, token.jti)
            /\ UNCHANGED <<blacklist, logged_out>>
       ELSE Revoke("logout", token)
    /\ UNCHANGED <<now, dbvars, audit_logs, session_new, call, expansion, sessions, tokens, redis_up>>

\* POST /logout of src/app.py: decode_token is not guarded, its exception
\* ends the request with status 500
app_logout_user(token) ==
    /\ IF decode_token(token) # "ok"
       THEN /\ resp' = Response("app_logout", token.sub, 500, FALSE, token.jti)
            /\ UNCHANGED <<blacklist, logged_out>>
       ELSE Revoke("app_logout", token)
    /\ UNCHANGED <<now, dbvars, audit_logs, session_new, call, expansion, sessions, tokens, redis_up>>

\* Tokens whose payload was altered after signing: another subject or a later
\* exp under the old signature
Forged ==
    {[t EXCEPT !.sub = sub, !.exp = t.exp + later, !.signed = FALSE] :
        t \in tokens, sub \in Users, later \in {0, 1}}

\* What a client may send as its bearer token
Presented == tokens \cup Forged

\* GET /auth/me
get_current_user_info(token) ==
    /\ LET auth == get_current_user(token)
       IN  resp' = Response("me", token.sub, auth.status, auth.status = 200, token.jti)
    /\ UNCHANGED <<now, dbvars, audit_logs, session_new, call, expansion, sessions, authvars>>

\* DELETE /delete of src/app.py
delete_user(token) ==
    /\ LET auth == app_get_current_user(token)
       IN  IF auth.status # 200
           THEN /\ resp' = Response("delete_user", token.sub, auth.status, FALSE,
                                     token.jti)
                /\ UNCHANGED users
           ELSE /\ users' = [users EXCEPT ![auth.user].is_active = FALSE]
                /\ resp' = Response("delete_user", auth.user, 200, TRUE, token.jti)
    /\ UNCHANGED <<now, user_roles, roles, resources, role_permissions,
                   user_permissions, audit_logs, session_new, call, expansion, sessions, authvars>>

\* The clock advances
Tick ==
    /\ now < MaxTime
    /\ now' = now + 1
    /\ UNCHANGED <<dbvars, audit_logs, session_new, call, expansion, sessions, authvars, resp>>

InitAuth ==
    /\ now = 0
    /\ users = ("u1" :> UserRow(TRUE, FALSE, 1)) @@ ("u2" :> UserRow(TRUE, FALSE, 2))
    /\ roles = (1 :> RoleRow(5, TRUE, NULL)) @@ (2 :> RoleRow(10, TRUE, NULL))
    /\ user_roles = << UserRoleRow("u1", 1), UserRoleRow("u2", 2) >>
    /\ resources = ("r1" :> ResourceRow("u1", 1, FALSE, FALSE))
    /\ role_permissions = ViewerPerms(1, TRUE) \o UserPerms(2)
    /\ user_permissions = {}
    /\ audit_logs = <<>>
    /\ session_new = <<>>
    /\ call = NoCall
    /\ tokens = {}
    /\ blacklist = <<>>
    /\ logged_out = {}
    /\ redis_up = TRUE
    /\ expansion = NoExpansion
    /\ sessions = NoSessions
    /\ resp = NoResponse

NextAuth ==
    \/ \E email \in Users \cup {"nobody"}, password_ok \in BOOLEAN :
          login_user(email, password_ok)
    \/ \E token \in tokens : logout_user(token)
    \/ \E token \in tokens : app_logout_user(token)
    \/ \E token \in Presented : get_current_user_info(token)
    \/ \E token \in tokens : delete_user(token)
    \/ Tick

SpecAuth == InitAuth /\ [][NextAuth]_vars

----------------------------------------------------------------------------
(* Properties of the token lifecycle (SpecAuth)                             *)

\* The token's signature and expiry validate at the current instant
Validates(token) == decode_token(token) = "ok"

\* C7: the jti of a token from login is not blacklisted after issuance, and
\* once logout answered success for the token get_current_user rejects it at
\* every instant at which its signature and expiry still validate.
C7_RevokedTokenRejected ==
    /\ (resp.op = "login" /\ resp.success) => ~is_token_blacklisted(resp.jti)
    /\ \A token \in tokens :
          (token.jti \in logged_out /\ Validates(token))
             => get_current_user(token).status = 401

\* C8: the revocation entry lives as long as the token: whenever logout has
\* answered success for a token that still validates, the entry exists.
C8_EntryCoversLifetime ==
    \A token \in tokens :
        (token.jti \in logged_out /\ Validates(token))
           => is_token_blacklisted(token.jti)

\* C9: get_current_user returns no inactive actor: every token of a
\* deactivated account is rejected with 401 by both get_current_user
\* functions, /auth/me never answers 200 for it, and its login fails.
C9_InactiveNeverAuthenticated ==
    /\ \A token \in tokens :
          ~users[token.sub].is_active
             => /\ get_current_user(token).status = 401
                /\ app_get_current_user(token).status = 401
    /\ (resp.op = "me" /\ resp.status = 200) => users[resp.user].is_active
    /\ (resp.op = "login" /\ resp.success) => users[resp.user].is_active

\* a token issued before delete_user, unexpired and not revoked, is presented
\* to /auth/me and rejected
C9_Witness ==
    \E token \in tokens :
        /\ ~users[token.sub].is_active
        /\ Validates(token)
        /\ ~is_token_blacklisted(token.jti)
        /\ token.jti \notin logged_out
        /\ resp = Response("me", token.sub, 401, FALSE, token.jti)

\* login of a deactivated account with the right password fails
C9_WitnessLogin ==
    /\ resp.op = "login" /\ resp.user \in Users /\ ~resp.success
    /\ ~users[resp.user].is_active

----------------------------------------------------------------------------
(* The resource handlers of src/api/resources.py                            *)

\* The response of a resource handler: checked holds the resources handed to
\* check_permission during the request, reason the tag of the one check of a
\* single-resource handler, items the ids of a ResourceListResponse
Answer(op, user, rid, status, checked, reason, items) ==
    [op |-> op, user |-> user, resource |-> rid, status |-> status,
     success |-> status \in {200, 201}, jti |-> "", checked |-> checked,
     reason |-> reason, items |-> items]

\* HTTPException(status_code=404, detail="Resource not found")
NotFound(op, user, rid) == Answer(op, user, rid, 404, {}, "", {})

\* The status a handler ends with after its one check_permission call
StatusOf(out, ok) == IF out.raised THEN 500 ELSE IF out.verdict THEN ok ELSE 403

\* session.commit() with the AuditLog objects the session holds
Commit(added) == audit_logs' = audit_logs \o added

\* An Optional field of ResourceUpdate: <<>> is None, <<v>> a value
Optional(values) == {<<>>} \cup {<<v>> : v \in values}

ResourceUpdate == [title : Optional({"t1"}), is_public : Optional(BOOLEAN)]

\* Mutant of get_resource: the is_archived test is dropped
get_resource_archived_too(user, rid) ==
    /\ IF rid \notin DOMAIN resources
       THEN resp' = NotFound("get_resource", user, rid)
       ELSE \E out \in check_permission(user, Res(rid), "read", TRUE) :
               resp' = Answer("get_resource", user, rid, StatusOf(out, 200),
                              {rid}, out.reason, {})
    /\ UNCHANGED <<now, dbvars, audit_logs, session_new, call, expansion, sessions, authvars>>

\* GET /resources/{resource_id}; the session is closed without a commit
get_resource(user, rid) ==
    /\ IF rid \notin DOMAIN resources \/ resources[rid].is_archived
       THEN resp' = NotFound("get_resource", user, rid)
       ELSE \E out \in check_permission(user, Res(rid), "read", TRUE) :
               resp' = Answer("get_resource", user, rid, StatusOf(out, 200),
                              {rid}, out.reason, {})
    /\ UNCHANGED <<now, dbvars, audit_logs, session_new, call, expansion, sessions, authvars>>

\* GET /resources without category_code
list_resources(user) ==
    /\ LET all_resources == {rid \in DOMAIN resources : ~resources[rid].is_archived}
       IN  \E outs \in [all_resources ->
                          UNION {check_permission(user, Res(rid), "read", FALSE) :
                                    rid \in all_resources}] :
              /\ \A rid \in all_resources :
                    outs[rid] \in check_permission(user, Res(rid), "read", FALSE)
              /\ resp' = IF \E rid \in all_resources : outs[rid].raised
                         THEN Answer("list_resources", user, "", 500,
                                     all_resources, "", {})
                         ELSE Answer("list_resources", user, "", 200,
                                     all_resources, "",
                                     {rid \in all_resources : outs[rid].verdict})
    /\ UNCHANGED <<now, dbvars, audit_logs, session_new, call, expansion, sessions, authvars>>

\* PUT /resources/{resource_id}; content is handled as title is
update_resource(user, rid, resource_data) ==
    /\ IF rid \notin DOMAIN resources \/ resources[rid].is_archived
       THEN /\ resp' = NotFound("update_resource", user, rid)
            /\ UNCHANGED <<resources, audit_logs>>
       ELSE \E out \in check_permission(user, Res(rid), "update", TRUE) :
               /\ resp' = Answer("update_resource", user, rid, StatusOf(out, 200),
                                 {rid}, out.reason, {})
               /\ IF out.raised \/ ~out.verdict
                  THEN UNCHANGED <<resources, audit_logs>>
                  ELSE /\ Len(audit_logs) < MaxAudit
                       /\ resources' =
                            [resources EXCEPT
                               ![rid].title =
                                  IF resource_data.title # <<>>
                                  THEN resource_data.title[1] ELSE @,
                               ![rid].is_public =
                                  IF resource_data.is_public # <<>>
                                  THEN resource_data.is_public[1] ELSE @]
                       /\ Commit(out.added)
    /\ UNCHANGED <<now, users, user_roles, roles, role_permissions,
                   user_permissions, session_new, call, expansion, sessions, authvars>>

\* DELETE /resources/{resource_id}
delete_resource(user, rid) ==
    /\ IF rid \notin DOMAIN resources \/ resources[rid].is_archived
       THEN /\ resp' = NotFound("delete_resource", user, rid)
            /\ UNCHANGED <<resources, audit_logs>>
       ELSE \E out \in check_permission(user, Res(rid), "delete", TRUE) :
               /\ resp' = Answer("delete_resource", user, rid, StatusOf(out, 200),
                                 {rid}, out.reason, {})
               /\ IF out.raised \/ ~out.verdict
                  THEN UNCHANGED <<resources, audit_logs>>
                  ELSE /\ Len(audit_logs) < MaxAudit
                       /\ resources' = [resources EXCEPT ![rid].is_archived = TRUE]
                       /\ Commit(out.added)
    /\ UNCHANGED <<now, users, user_roles, roles, role_permissions,
                   user_permissions, session_new, call, expansion, sessions, authvars>>

\* Resource(id=uuid4(), category_id=..., owner_id=...), as create_resource
\* builds temp_resource: no relationship is set, category reads None
Transient(owner, category_id) ==
    [id |-> "temp", owner_id |-> owner, category_id |-> category_id,
     category |-> NULL, is_public |-> FALSE, is_archived |-> FALSE]

\* POST /resources: temp_resource and new_resource get fresh uuid4 ids, the
\* check runs on temp_resource, whose owner is the caller
create_resource(user, category_id, is_public) ==
    /\ IF category_id \notin DOMAIN Categories
       THEN /\ resp' = Answer("create_resource", user, "", 404, {}, "", {})
            /\ UNCHANGED <<resources, audit_logs>>
       ELSE /\ DOMAIN resources # ResourceIds
            /\ LET rid == CHOOSE r \in ResourceIds : r \notin DOMAIN resources
                   temp_resource == Transient(user, category_id)
                   new_resource == ResourceRow(user, category_id, is_public, FALSE)
               IN  \E out \in check_permission(user, temp_resource, "create", FALSE) :
                      /\ resp' = Answer("create_resource", user,
                                        IF StatusOf(out, 201) = 201 THEN rid ELSE "",
                                        StatusOf(out, 201), {"temp"}, out.reason, {})
                      /\ IF out.raised \/ ~out.verdict
                         THEN UNCHANGED <<resources, audit_logs>>
                         ELSE /\ Len(audit_logs) < MaxAudit
                              /\ resources' = (rid :> new_resource) @@ resources
                              /\ Commit(<<log_access(user, [id |-> rid,
                                                     category |-> category_id],
                                                     "create", TRUE, "")>>)
    /\ UNCHANGED <<now, users, user_roles, roles, role_permissions,
                   user_permissions, session_new, call, expansion, sessions, authvars>>

\* u1 holds the role "user" and owns r1, which is public or not and may have
\* been deleted already; u2 holds the role "viewer" and is a superuser or not
InitResources ==
    /\ now = 0
    /\ \E su \in BOOLEAN :
          users = ("u1" :> UserRow(TRUE, FALSE, 1)) @@ ("u2" :> UserRow(TRUE, su, 2))
    /\ roles = (1 :> RoleRow(5, TRUE, NULL)) @@ (2 :> RoleRow(10, TRUE, NULL))
    /\ user_roles = << UserRoleRow("u2", 1), UserRoleRow("u1", 2) >>
    /\ \E public \in BOOLEAN, archived \in BOOLEAN :
          resources = ("r1" :> ResourceRow("u1", 1, public, archived))
    /\ role_permissions = ViewerPerms(1, TRUE) \o UserPerms(2)
    /\ user_permissions = {}
    /\ audit_logs = <<>>
    /\ session_new = <<>>
    /\ call = NoCall
    /\ tokens = {}
    /\ blacklist = <<>>
    /\ logged_out = {}
    /\ redis_up = TRUE
    /\ expansion = NoExpansion
    /\ sessions = NoSessions
    /\ resp = NoResponse

\* current_user is what get_current_user returned: an active account
Actors == {u \in Users : users[u].is_active}

NextResources ==
    \/ \E user \in Actors, rid \in ResourceIds : get_resource(user, rid)
    \/ \E user \in Actors : list_resources(user)
    \/ \E user \in Actors, rid \in ResourceIds, resource_data \in ResourceUpdate :
          update_resource(user, rid, resource_data)
    \/ \E user \in Actors, rid \in ResourceIds : delete_resource(user, rid)
    \/ \E user \in Actors, category_id \in {1, 3}, is_public \in BOOLEAN :
          create_resource(user, category_id, is_public)

SpecResources == InitResources /\ [][NextResources]_vars

----------------------------------------------------------------------------
(* Properties of the resource handlers (SpecResources)                      *)

Archived == {rid \in DOMAIN resources : resources[rid].is_archived}

SingleResourceOps == {"get_resource", "update_resource", "delete_resource"}

\* The request of this step, made on a resource archived before it, answers
\* 404 with no check_permission call
HiddenFrom(rid) ==
    /\ rid \notin resp'.checked
    /\ rid \notin resp'.items
    /\ (resp'.op \in SingleResourceOps /\ resp'.resource = rid)
          => resp'.status = 404 /\ resp'.reason = ""

\* C10: once a resource is archived no request clears the flag or writes the
\* row, every later get_resource, update_resource and delete_resource on it
\* answers 404 without calling check_permission, and list_resources neither
\* checks nor returns it, whoever asks and whether or not it is public.
C10_ArchivedInvisible ==
    [][\A rid \in Archived :
          /\ rid \in DOMAIN resources'
          /\ resources'[rid] = resources[rid]
          /\ HiddenFrom(rid)]_vars

\* the owner asks for a public resource that delete_resource archived
C10_Witness ==
    /\ resp = NotFound("get_resource", resp.user, resp.resource)
    /\ resp.resource \in Archived
    /\ resources[resp.resource].owner_id = resp.user
    /\ resources[resp.resource].is_public
    /\ \E i \in DOMAIN audit_logs :
          /\ audit_logs[i].resource_id = resp.resource
          /\ audit_logs[i].action = "delete"
          /\ audit_logs[i].success

\* a superuser updates or deletes an archived resource and gets 404
C10_WitnessSuperuser ==
    /\ resp.op \in {"update_resource", "delete_resource"}
    /\ resp.status = 404
    /\ resp.resource \in Archived
    /\ users[resp.user].is_superuser

\* a list answered with one resource while another one is archived and public
C10_WitnessList ==
    /\ resp.op = "list_resources" /\ resp.status = 200
    /\ resp.items # {}
    /\ \E rid \in Archived : resources[rid].is_public

\* The action each single-resource handler asks check_permission about
ActionOf(op) ==
    IF op = "get_resource" THEN "read"
    ELSE IF op = "update_resource" THEN "update"
    ELSE "delete"

\* C12: a get_resource, update_resource or delete_resource request that ended
\* with 403 has left a stored AuditLog record for its actor, resource and
\* action with success = false and the reason of the refusal.
C12_RefusalAudited ==
    (resp.op \in SingleResourceOps /\ resp.status = 403) =>
        \E i \in DOMAIN audit_logs :
            /\ audit_logs[i].user_id = resp.user
            /\ audit_logs[i].resource_id = resp.resource
            /\ audit_logs[i].action = ActionOf(resp.op)
            /\ ~audit_logs[i].success
            /\ audit_logs[i].reason = resp.reason

\* C24: create_resource stores a resource (201) only for an actor who is a
\* superuser or whose expanded roles hold an allow grant of CREATE on the
\* category; every other actor is refused with 403.
C24_CreateNeedsGrant ==
    (resp.op = "create_resource" /\ resp.status # 404) =>
        IF \/ users[resp.user].is_superuser
           \/ \E category_id \in DOMAIN Categories :
                 check_role_permissions(resp.user, Transient(resp.user, category_id),
                                        "create") = "allow"
        THEN resp.status = 201
        ELSE resp.status = 403

----------------------------------------------------------------------------
(* Properties of token expiry (SpecAuth)                                    *)

\* Both get_current_user functions answer 401 for the token
Rejected(token) ==
    /\ get_current_user(token).status = 401
    /\ app_get_current_user(token).status = 401

\* No presented token authenticates at or after its exp, revoked or not, and
\* none authenticates without a verifying signature
OnlyBeforeExp ==
    \A token \in Presented :
        (~token.signed \/ now >= token.exp * TicksPerSecond) => Rejected(token)

\* C13: a token issued now carries exp = issue time + the configured lifetime
\* (in the whole seconds a token counts in), no token authenticates at or
\* after its exp whatever the blacklist holds, and a token whose signature
\* does not verify never authenticates.
C13_TimeBoxed ==
    [][/\ \A token \in tokens' \ tokens :
             /\ token.signed
             /\ token.iat = now \div TicksPerSecond
             /\ token.exp = token.iat + TokenLifetime
       /\ OnlyBeforeExp'
       /\ (resp' # resp /\ resp'.op = "me" /\ resp'.status = 200) =>
             \E token \in tokens' :
                 /\ token.jti = resp'.jti /\ token.sub = resp'.user
                 /\ now' < token.exp * TicksPerSecond]_vars

\* a token never revoked, of an active account, is presented at or after its
\* exp and rejected
C13_Witness ==
    \E token \in tokens :
        /\ now >= token.exp * TicksPerSecond
        /\ token.jti \notin logged_out
        /\ token.jti \notin DOMAIN blacklist
        /\ users[token.sub].is_active
        /\ resp = Response("me", token.sub, 401, FALSE, token.jti)

\* a forged token naming an active account is presented before exp and
\* rejected
C13_WitnessForged ==
    /\ resp.op = "me" /\ resp.status = 401
    /\ \E token \in Forged :
          /\ token.sub = resp.user /\ token.jti = resp.jti
          /\ users[token.sub].is_active
          /\ now < token.exp * TicksPerSecond
          /\ \A t \in tokens : t.sub # token.sub

----------------------------------------------------------------------------
(* SpecOutage: the handlers while the revocation store comes and goes       *)

\* GET /resources/{resource_id} behind Depends(get_current_user): the handler
\* body runs only when the dependency returned a user
request_get_resource(token, rid) ==
    LET auth == get_current_user(token)
    IN  IF auth.status # 200
        THEN /\ resp' = [Answer("get_resource", token.sub, rid, auth.status,
                                {}, "", {}) EXCEPT !.jti = token.jti]
             /\ UNCHANGED <<now, dbvars, audit_logs, session_new, call, expansion, sessions, authvars>>
        ELSE get_resource(auth.user, rid)

\* The Redis server becomes unreachable, or reachable again
RedisOutage ==
    /\ redis_up' = ~redis_up
    /\ UNCHANGED <<now, dbvars, audit_logs, session_new, call, expansion, sessions, tokens, blacklist,
                   logged_out, resp>>

NextOutage ==
    \/ login_user("u1", TRUE)
    \/ \E token \in tokens : logout_user(token)
    \/ \E token \in tokens : app_logout_user(token)
    \/ \E token \in tokens : delete_user(token)
    \/ \E token \in tokens, rid \in DOMAIN resources : request_get_resource(token, rid)
    \/ RedisOutage
    \/ Tick

SpecOutage == InitAuth /\ [][NextOutage]_vars

\* A request was served in this step while the store was unreachable
ServedInOutage == ~redis_up /\ redis_up' = redis_up /\ now' = now /\ resp' # resp

\* The token the response of this step is about
TokenOf(r) == {token \in tokens : token.jti = r.jti}

\* C14: while the revocation store is unreachable no request is authenticated
\* from a token that would need the existence check: get_current_user returns
\* no user, DELETE /delete and the resource handler do not run, and
\* a logout whose write raises answers no success and records nothing.
C14_FailsClosed ==
    [][ServedInOutage =>
          /\ \A token \in tokens : get_current_user(token).user = ""
                                   /\ app_get_current_user(token).user = ""
          /\ resp'.op \in {"delete_user", "get_resource"} =>
                /\ resp'.status \in {401, 500} /\ ~resp'.success
                /\ resp'.checked = {}
                /\ users' = users
          /\ resp'.op \in {"logout", "app_logout"} =>
                /\ blacklist' = blacklist
                /\ resp'.success =>
                      \A token \in TokenOf(resp') :
                          token.exp * TicksPerSecond - now < TicksPerSecond]_vars

\* during an outage a valid, unrevoked token of an active account is presented
\* to the resource handler, which does not run
C14_Witness ==
    /\ ~redis_up
    /\ resp.op = "get_resource" /\ resp.status = 500 /\ resp.checked = {}
    /\ \E token \in TokenOf(resp) :
          /\ Validates(token) /\ token.jti \notin DOMAIN blacklist
          /\ users[token.sub].is_active

\* during an outage logout of a token with more than a second to live fails
C14_WitnessLogout ==
    /\ ~redis_up
    /\ resp.op \in {"logout", "app_logout"} /\ resp.status = 500 /\ ~resp.success
    /\ resp.jti \notin logged_out

----------------------------------------------------------------------------
(* SpecRefresh: several tokens of one actor                                 *)

\* POST /auth/refresh: a new token for the actor get_current_user returned;
\* nothing is done to the token presented
refresh_token(token) ==
    /\ LET auth == get_current_user(token)
       IN  IF auth.status # 200
           THEN /\ resp' = Response("refresh", token.sub, auth.status, FALSE, token.jti)
                /\ UNCHANGED tokens
           ELSE /\ {t.jti : t \in tokens} # Jtis
                /\ LET jti == CHOOSE j \in Jtis : j \notin {t.jti : t \in tokens}
                   IN  /\ tokens' = tokens \cup {create_access_token(auth.user, jti)}
                       /\ resp' = Response("refresh", auth.user, 200, TRUE, jti)
    /\ UNCHANGED <<now, dbvars, audit_logs, session_new, call, expansion, sessions,
                   blacklist, logged_out, redis_up>>

NextRefresh ==
    \/ \E email \in Users : login_user(email, TRUE)
    \/ \E token \in tokens : refresh_token(token)
    \/ \E token \in tokens : logout_user(token)
    \/ \E token \in tokens : app_logout_user(token)
    \/ \E token \in tokens : get_current_user_info(token)
    \/ Tick

SpecRefresh == InitAuth /\ [][NextRefresh]_vars

\* No two issued tokens share a jti
OwnJti == \A t, u \in tokens : t.jti = u.jti => t = u

\* This step is a request of one of the kinds, answered
Answered(ops) == resp' # resp /\ resp'.op \in ops

\* C28: every issued token has its own jti; a logout changes the revocation
\* store for the jti presented only, so every other token authenticates
\* after it exactly as before; a refresh adds a token with a fresh jti and
\* leaves every token issued before, the one presented included, as valid as
\* it was.
C28_LogoutRevokesOneToken ==
    /\ []OwnJti
    /\ [][/\ (Answered({"logout", "app_logout"})
              \/ blacklist' # blacklist) =>
                 \A t \in tokens :
                     t.jti # resp'.jti =>
                         /\ get_current_user(t)' = get_current_user(t)
                         /\ app_get_current_user(t)' = app_get_current_user(t)
          /\ Answered({"refresh"}) =>
                 /\ blacklist' = blacklist
                 /\ tokens \subseteq tokens'
                 /\ \A t \in tokens : get_current_user(t)' = get_current_user(t)
                 /\ resp'.success =>
                       /\ resp'.jti \notin {t.jti : t \in tokens}
                       /\ \E t \in tokens' \ tokens : t.jti = resp'.jti]_vars

\* one token of an actor was logged out and is rejected while another token
\* of the same actor, from a login or a refresh, still authenticates
C28_Witness ==
    /\ resp.op = "logout" /\ resp.success
    /\ is_token_blacklisted(resp.jti)
    /\ \E t \in tokens : /\ t.sub = resp.user
                          /\ t.jti # resp.jti
                          /\ get_current_user(t).status = 200

----------------------------------------------------------------------------
(* SpecExpand: _get_all_user_roles, one loop turn per step                  *)

\* A caller enters _get_all_user_roles(user)
GetAllUserRoles(user) ==
    /\ expansion.pc = "idle"
    /\ expansion' = ExpansionBegin(user)
    /\ UNCHANGED <<now, dbvars, audit_logs, session_new, call, authvars, sessions, resp>>

\* The loop advances by one turn, or ends
ExpandIteration ==
    /\ expansion.pc = "loop"
    /\ expansion' = expand_iteration(expansion)
    /\ UNCHANGED <<now, dbvars, audit_logs, session_new, call, authvars, sessions, resp>>

\* The role ids of the hierarchy under expansion
ExpandRoleIds == {1, 2, 3}

\* Every parent-link graph on the roles, self links and cycles included, with
\* at most one inactive role
RoleGraphs ==
    {[r \in ExpandRoleIds |-> RoleRow(5, r # off, parent[r])] :
        parent \in [ExpandRoleIds -> {NULL} \cup ExpandRoleIds],
        off \in {NULL} \cup ExpandRoleIds}

\* The memberships of u1: none, one or two roles; the first one never expires,
\* has expired, or expires later
Memberships ==
    {<<>>}
    \cup {<< [UserRoleRow("u1", a) EXCEPT !.expires_at = e] >> :
             a \in ExpandRoleIds, e \in {NULL, 2, 4}}
    \cup {<< [UserRoleRow("u1", p[1]) EXCEPT !.expires_at = e],
              UserRoleRow("u1", p[2]) >> :
             p \in {q \in ExpandRoleIds \X ExpandRoleIds : q[1] # q[2]},
             e \in {NULL, 2, 4}}

InitExpand ==
    /\ now = 3
    /\ users = ("u1" :> UserRow(TRUE, FALSE, 1)) @@ ("u2" :> UserRow(TRUE, FALSE, 2))
    /\ roles \in RoleGraphs
    /\ user_roles \in Memberships
    /\ resources = ("r1" :> ResourceRow("u2", 1, FALSE, FALSE))
    /\ role_permissions = ViewerPerms(1, TRUE)
    /\ user_permissions = {}
    /\ audit_logs = <<>>
    /\ session_new = <<>>
    /\ call = NoCall
    /\ tokens = {}
    /\ blacklist = <<>>
    /\ logged_out = {}
    /\ redis_up = TRUE
    /\ expansion = NoExpansion
    /\ sessions = NoSessions
    /\ resp = NoResponse

NextExpand ==
    \/ GetAllUserRoles("u1")
    \/ ExpandIteration

\* The loop body has no await that can block for ever: a started call keeps
\* taking turns
SpecExpand == InitExpand /\ [][NextExpand]_vars /\ WF_vars(ExpandIteration)

\* The parent links reachable from the memberships of the user close a cycle
RECURSIVE Ancestor(_, _, _)
Ancestor(r, target, fuel) ==
    /\ fuel > 0
    /\ roles[r].parent_role_id # NULL
    /\ (roles[r].parent_role_id = target
        \/ Ancestor(roles[r].parent_role_id, target, fuel - 1))

OnCycle(r) == Ancestor(r, r, Cardinality(DOMAIN roles))

NoRoleTwice(list) == \A i, j \in DOMAIN list : list[i] = list[j] => i = j

\* C15: every started expansion ends, whatever the parent links are, and the
\* list it returns holds no role twice (and is what get_all_user_roles gives).
C15_ExpansionTerminates ==
    /\ (expansion.pc = "loop") ~> (expansion.pc = "done")
    /\ [](NoRoleTwice(expansion.all_roles))
    /\ [](expansion.pc = "done" =>
             expansion.all_roles = get_all_user_roles(expansion.user))

\* the expansion of a user whose roles lie on a cycle of active roles ended
C15_Witness ==
    /\ expansion.pc = "done"
    /\ Len(expansion.all_roles) >= 2
    /\ \A i \in DOMAIN expansion.all_roles :
          OnCycle(expansion.all_roles[i]) /\ roles[expansion.all_roles[i]].is_active

\* the expansion of a user whose only role is its own parent ended
C15_WitnessSelf ==
    /\ expansion.pc = "done"
    /\ \E r \in DOMAIN roles : /\ expansion.all_roles = <<r>>
                               /\ roles[r].parent_role_id = r /\ roles[r].is_active

\* The roles of the memberships of the user that have not expired
LiveMemberships(user) ==
    LET rows == SelectSeq(user_roles,
                          LAMBDA x : /\ x.user_id = user
                                     /\ x.role_id \in DOMAIN roles
                                     /\ (x.expires_at = NULL \/ x.expires_at > now))
    IN  [i \in 1..Len(rows) |-> rows[i].role_id]

SetOf(list) == {list[i] : i \in DOMAIN list}

\* C20: the expanded set is the one reached from the memberships that have
\* not expired, and a user whose memberships have all expired gets nothing
\* from role grants.
C20_ExpiredMembershipsIgnored ==
    /\ expansion.pc = "done" =>
          SetOf(expansion.all_roles)
             = SetOf(ExpandRoles(LiveMemberships(expansion.user), {}, <<>>))
    /\ (expansion.pc = "done" /\ LiveMemberships(expansion.user) = <<>>) =>
          check_role_permissions(expansion.user, Res("r1"), "read") = "deny"

\* The roles reached from a set by parent links that end at an active role
RECURSIVE ActiveClosure(_, _)
ActiveClosure(S, fuel) ==
    LET step == S \cup {roles[r].parent_role_id : r \in
                           {x \in S : /\ roles[x].parent_role_id # NULL
                                      /\ roles[x].parent_role_id \in DOMAIN roles
                                      /\ roles[roles[x].parent_role_id].is_active}}
    IN  IF fuel = 0 \/ step = S THEN S ELSE ActiveClosure(step, fuel - 1)

DirectRoles(user) == SetOf(UserRoles(user))

----------------------------------------------------------------------------
(* SpecScope: check_permission where a DEPARTMENT grant is walked           *)

\* The first grant of the viewer role has scope DEPARTMENT; a second grant of
\* scope ALL with the opposite verdict may follow it
DepartmentGrantTables ==
    {<< Grant(1, 1, a, "department", b, CondNone) >> :
        a \in {"read", "update"}, b \in BOOLEAN}
    \cup
    {<< Grant(1, 1, a, "department", b, CondNone),
        Grant(1, 1, a, "all", ~b, CondNone) >> :
        a \in {"read", "update"}, b \in BOOLEAN}

\* u1 holds the viewer role and u2 owns r1; each of them is in department IT,
\* in department HR or in none
InitScope ==
    /\ now = 3
    /\ \E d1 \in {NULL} \cup DOMAIN Departments, d2 \in {NULL} \cup DOMAIN Departments :
          users = ("u1" :> UserRow(TRUE, FALSE, d1)) @@ ("u2" :> UserRow(TRUE, FALSE, d2))
    /\ roles = (1 :> RoleRow(5, TRUE, NULL))
    /\ user_roles = << UserRoleRow("u1", 1) >>
    /\ \E public \in BOOLEAN :
          resources = ("r1" :> ResourceRow("u2", 1, public, FALSE))
    /\ role_permissions \in DepartmentGrantTables
    /\ user_permissions = {}
    /\ audit_logs = <<>>
    /\ session_new = <<>>
    /\ call = NoCall
    /\ tokens = {}
    /\ blacklist = <<>>
    /\ logged_out = {}
    /\ redis_up = TRUE
    /\ expansion = NoExpansion
    /\ sessions = NoSessions
    /\ resp = NoResponse

SpecScope == InitScope /\ [][NextEngine]_vars

\* Both departments are set and are the same one
SameDepartment(user, owner) ==
    /\ users[user].department_id # NULL
    /\ users[owner].department_id # NULL
    /\ users[user].department_id = users[owner].department_id

\* The verdict and tag of a grant that settles a call
GrantGave(g) == CallGave(g.is_allowed, IF g.is_allowed THEN "role" ELSE "denied")

\* C16: a DEPARTMENT grant matches exactly when the actor's and the owner's
\* departments are both set and equal: then it settles the call, otherwise
\* the walk passes it by (to the next grant, or to deny).
C16_DepartmentScope ==
    /\ \A user \in DOMAIN users, rid \in DOMAIN resources :
          check_scope(user, Res(rid), "department")
             <=> SameDepartment(user, resources[rid].owner_id)
    /\ (RulesOneToFourSilent /\ call.action = role_permissions[1].action
        /\ call.user = "u1") =>
          IF SameDepartment(call.user, CallResource.owner_id)
          THEN GrantGave(role_permissions[1])
          ELSE IF Len(role_permissions) > 1
               THEN GrantGave(role_permissions[2])
               ELSE CallGave(FALSE, "denied")

\* actor and owner both without department: the allow grant does not match
C16_Witness ==
    /\ RulesOneToFourSilent /\ call.user = "u1"
    /\ call.action = role_permissions[1].action
    /\ role_permissions[1].is_allowed /\ Len(role_permissions) = 1
    /\ users["u1"].department_id = NULL /\ users["u2"].department_id = NULL
    /\ ~call.verdict /\ call.reason = "denied"

\* actor and owner in the same department: the allow grant settles the call
C16_WitnessSame ==
    /\ RulesOneToFourSilent /\ call.user = "u1"
    /\ call.action = role_permissions[1].action
    /\ role_permissions[1].is_allowed
    /\ SameDepartment("u1", "u2")
    /\ call.verdict /\ call.reason = "role"

----------------------------------------------------------------------------
(* Properties of the engine's error paths (SpecEngine)                      *)

\* C17: a conditions text that is no JSON, or JSON that is no object, counts
\* as no condition: _check_conditions returns true for it, and every
\* check_permission call returns a verdict.
C17_MalformedConditionsPass ==
    Called =>
        /\ ~call.raised
        /\ \A i \in DOMAIN role_permissions :
              role_permissions[i].conditions.kind \in {"invalid", "array"} =>
                 check_conditions(call.user, CallResource,
                                  role_permissions[i].conditions) = "pass"

\* C19: a check_permission call changes no User, Role, UserRole, Resource,
\* RolePermission or UserPermission row and no stored AuditLog row; all it
\* does to the session is add at most one AuditLog entry after those already
\* pending.
C19_OnlyAddsOneAuditEntry ==
    [][/\ dbvars' = dbvars
       /\ audit_logs' = audit_logs
       /\ Len(session_new') <= Len(session_new) + 1
       /\ SubSeq(session_new', 1, Len(session_new)) = session_new]_vars

\* A logged call was made while an expired override of the caller was stored
C19_Witness ==
    /\ Called
    /\ call.log_attempt
    /\ Len(session_new) = 1
    /\ \E p \in user_permissions :
          p.user_id = call.user /\ p.expires_at # NULL /\ p.expires_at <= now

----------------------------------------------------------------------------
(* SpecInactive: check_permission where roles may be inactive               *)

\* u1 holds role 1, and role 2 as well or through the parent link of role 1;
\* each role is active or not and carries an allow or a deny of READ on
\* documents; u2 owns r1
InitInactive ==
    /\ now = 3
    /\ users = ("u1" :> UserRow(TRUE, FALSE, 1)) @@ ("u2" :> UserRow(TRUE, FALSE, 2))
    /\ \E a1 \in BOOLEAN, a2 \in BOOLEAN, parent \in {NULL, 2},
          p \in {<<10, 5>>, <<5, 10>>} :
          roles = (1 :> RoleRow(p[1], a1, parent)) @@ (2 :> RoleRow(p[2], a2, NULL))
    /\ user_roles \in { << UserRoleRow("u1", 1) >>,
                        << UserRoleRow("u1", 1), UserRoleRow("u1", 2) >> }
    /\ \E public \in BOOLEAN :
          resources = ("r1" :> ResourceRow("u2", 1, public, FALSE))
    /\ \E b1 \in BOOLEAN, b2 \in BOOLEAN :
          role_permissions = << Grant(1, 1, "read", "all", b1, CondNone),
                                Grant(2, 1, "read", "all", b2, CondNone) >>
    /\ user_permissions = {}
    /\ audit_logs = <<>>
    /\ session_new = <<>>
    /\ call = NoCall
    /\ tokens = {}
    /\ blacklist = <<>>
    /\ logged_out = {}
    /\ redis_up = TRUE
    /\ expansion = NoExpansion
    /\ sessions = NoSessions
    /\ resp = NoResponse

SpecInactive == InitInactive /\ [][NextEngine]_vars

\* The candidates of the walk that belong to an active role
ActiveCandidates(user, resource, action) ==
    {c \in Candidates(user, resource, action) :
        roles[get_all_user_roles(user)[c[1]]].is_active}

\* C29: a role with is_active = false contributes no grant, be it reached as
\* a parent or held directly: when the role walk settles the call, the
\* verdict is that of the first candidate among the grants of active roles,
\* and deny when there is none.
C29_InactiveRolesContributeNothing ==
    RulesOneToFourSilent =>
        LET cands == ActiveCandidates(call.user, CallResource, call.action)
        IN  /\ ~call.raised
            /\ IF cands = {} THEN ~call.verdict
               ELSE \E c \in cands :
                       /\ \A d \in cands \ {c} : WalkedBefore(call.user, c, d)
                       /\ call.verdict = role_permissions[c[2]].is_allowed

----------------------------------------------------------------------------
(* SpecConditions: check_permission where one conditional grant is walked   *)

\* The values a condition key is given: JSON booleans and strings, of the
\* expected type or not
ArchivedValues   == {JBool(TRUE), JBool(FALSE), JStr("IT")}
DepartmentValues == {JStr("IT"), JStr("HR"), JBool(TRUE)}
OtherValues      == {JBool(FALSE)}

\* The key is not in the object
Absent == [t |-> "absent", b |-> FALSE, s |-> ""]

Pick(key, v) == IF v = Absent THEN <<>> ELSE << <<key, v>> >>

\* The JSON objects with any subset of the keys "resource.is_archived",
\* "user.department.code" and "resource.title" ("{}" among them), each key
\* once, in two orders
ConditionObjects ==
    {CondObject(Pick("resource.is_archived", a) \o Pick("user.department.code", d)
                \o Pick("resource.title", o)) :
        a \in {Absent} \cup ArchivedValues, d \in {Absent} \cup DepartmentValues,
        o \in {Absent} \cup OtherValues}
    \cup
    {CondObject(Pick("resource.title", o) \o Pick("user.department.code", d)
                \o Pick("resource.is_archived", a)) :
        a \in ArchivedValues, d \in DepartmentValues, o \in OtherValues}

\* u1 holds the role of the one grant, an allow of READ on documents with
\* conditions, and is in department IT, HR or none; u2 owns r1, archived or
\* not
InitConditions ==
    /\ now = 3
    /\ \E d1 \in {NULL} \cup DOMAIN Departments :
          users = ("u1" :> UserRow(TRUE, FALSE, d1)) @@ ("u2" :> UserRow(TRUE, FALSE, 2))
    /\ roles = (1 :> RoleRow(5, TRUE, NULL))
    /\ user_roles = << UserRoleRow("u1", 1) >>
    /\ \E archived \in BOOLEAN :
          resources = ("r1" :> ResourceRow("u2", 1, FALSE, archived))
    /\ \E conditions \in {CondNone, CondEmpty, CondInvalid} \cup ConditionObjects :
          role_permissions = << Grant(1, 1, "read", "all", TRUE, conditions) >>
    /\ user_permissions = {}
    /\ audit_logs = <<>>
    /\ session_new = <<>>
    /\ call = NoCall
    /\ tokens = {}
    /\ blacklist = <<>>
    /\ logged_out = {}
    /\ redis_up = TRUE
    /\ expansion = NoExpansion
    /\ sessions = NoSessions
    /\ resp = NoResponse

SpecConditions == InitConditions /\ [][NextEngine]_vars

\* The value the key of a condition is given
Expected(conditions, key) ==
    IF conditions.kind # "object" THEN Absent
    ELSE IF \E i \in DOMAIN conditions.items : conditions.items[i][1] = key
         THEN conditions.items[CHOOSE i \in DOMAIN conditions.items :
                                   conditions.items[i][1] = key][2]
         ELSE Absent

\* Every recognized key of the conditions holds
RecognizedKeysHold(user, resource, conditions) ==
    LET a == Expected(conditions, "resource.is_archived")
        d == Expected(conditions, "user.department.code")
    IN  /\ a # Absent => a = JBool(resource.is_archived)
        /\ d # Absent => /\ users[user].department_id # NULL
                       /\ d = JStr(Departments[users[user].department_id].code)

\* The call reached the one grant: u1 asked to read r1
GrantWalked ==
    Called /\ call.user = "u1" /\ call.resource = "r1" /\ call.action = "read"

\* C22: the grant matches iff every recognized key holds; an unrecognized
\* key never makes it fail; empty and absent conditions always pass.
C22_ConditionsAreConjunction ==
    GrantWalked =>
        LET conditions == role_permissions[1].conditions
        IN  /\ ~call.raised
            /\ call.verdict = RecognizedKeysHold(call.user, CallResource, conditions)
            /\ (conditions.kind \in {"none", "empty"} => call.verdict)
            /\ (conditions = CondObject(<<>>) => call.verdict)

\* a grant with both recognized keys and a third one matched
C22_Witness ==
    /\ GrantWalked /\ call.verdict /\ call.reason = "role"
    /\ role_permissions[1].conditions.kind = "object"
    /\ Len(role_permissions[1].conditions.items) = 3

\* a grant that asks for a department did not match an actor without one
C22_WitnessNoDepartment ==
    /\ GrantWalked /\ ~call.verdict /\ ~call.raised
    /\ users["u1"].department_id = NULL
    /\ role_permissions[1].conditions \in
          {CondObject(<< <<"user.department.code", v>> >>) : v \in DepartmentValues}

----------------------------------------------------------------------------
(* grant_user_permission and revoke_user_permission, each call in a session *)
(* of its own.  A call is cut where it awaits the database for the last     *)
(* time: the reads up to the select of the row, with the assignments that   *)
(* follow them without an await, then session.commit().                     *)

\* A user_permissions row; id is the autoincrement primary key
UserPermission(id, user, rid, action, granter, granted, expires) ==
    [id |-> id, user_id |-> user, resource_id |-> rid, action |-> action,
     is_allowed |-> TRUE, granted_by |-> granter, granted_at |-> granted,
     expires_at |-> expires]

\* session.scalar(select(UserPermission).where(...)) found nothing
NoRow == [id |-> NULL]

\* Mutant of SelectTriple: the select leaves expired rows out
SelectTriple_unexpired(target, rid, action) ==
    {p \in user_permissions :
        /\ p.user_id = target /\ p.resource_id = rid /\ p.action = action
        /\ (p.expires_at = NULL \/ p.expires_at > now)}

\* The rows the select on (user_id, resource_id, action) matches
SelectTriple(target, rid, action) ==
    {p \in user_permissions :
        p.user_id = target /\ p.resource_id = rid /\ p.action = action}

\* What session.scalar returns of them: the first row, in an order the
\* statement does not fix, or None
FirstOf(rows) == IF rows = {} THEN {NoRow} ELSE rows

\* The primary key the next INSERT gets
NextId ==
    IF user_permissions = {} THEN 1
    ELSE 1 + (CHOOSE m \in {p.id : p \in user_permissions} :
                 \A p \in user_permissions : p.id <= m)

\* The call returned (TRUE / FALSE) or raised ("raised")
Finished(c, returned) ==
    [c EXCEPT !.pc = "done", !.returned = returned, !.committed_at = now,
              !.granted_at = NULL]

\* The locals of a call that has not finished
Begun(op, granter, target, rid, action, expires_at, existing) ==
    [pc |-> "commit", op |-> op, granter |-> granter, target |-> target,
     resource |-> rid, action |-> action, expires_at |-> expires_at,
     existing |-> existing, granted_at |-> now, returned |-> FALSE,
     began |-> now, committed_at |-> NULL]

\* grant_user_permission up to `await self.session.commit()`: the SHARE
\* check, the select of the existing row and the assignments to it
GrantBegin(s, granter, target, rid, action, expires_at) ==
    /\ sessions[s].pc \in {"idle", "done"}
    /\ now < MaxTime
    /\ now' = now + 1
    /\ \E can_share \in check_permission(granter, Res(rid), "share", FALSE) :
          LET c == Begun("grant", granter, target, rid, action, expires_at, NoRow)
          IN  IF can_share.raised
              THEN sessions' = [sessions EXCEPT ![s] = Finished(c, "raised")]
              ELSE IF ~can_share.verdict /\ resources[rid].owner_id # granter
              THEN sessions' = [sessions EXCEPT ![s] = Finished(c, FALSE)]
              ELSE \E existing \in FirstOf(SelectTriple(target, rid, action)) :
                      sessions' = [sessions EXCEPT ![s] = [c EXCEPT !.existing = existing]]
    /\ UNCHANGED <<dbvars, audit_logs, session_new, call, authvars, expansion, resp>>

\* The row an UPDATE of the flush leaves: the unit of work writes the
\* columns whose assigned value differs from the value the session loaded
Flushed(row, c) ==
    [row EXCEPT
        !.is_allowed = IF c.existing.is_allowed # TRUE THEN TRUE ELSE @,
        !.granted_by = IF c.existing.granted_by # c.granter THEN c.granter ELSE @,
        !.granted_at = IF c.existing.granted_at # c.granted_at THEN c.granted_at ELSE @,
        !.expires_at = IF c.existing.expires_at # c.expires_at THEN c.expires_at ELSE @]

\* `await self.session.commit()` of grant_user_permission: the flush (INSERT
\* with granted_at defaulting to utcnow(), or UPDATE ... WHERE id = the row
\* loaded, which raises StaleDataError when the row is gone) and the COMMIT
GrantCommit(s) ==
    /\ sessions[s].pc = "commit"
    /\ sessions[s].op = "grant"
    /\ now < MaxTime
    /\ now' = now + 1
    /\ LET c    == sessions[s]
           rows == {p \in user_permissions : p.id = c.existing.id}
       IN  IF c.existing = NoRow
           THEN /\ user_permissions' = user_permissions \cup
                      {UserPermission(NextId, c.target, c.resource, c.action,
                                      c.granter, now, c.expires_at)}
                /\ sessions' = [sessions EXCEPT ![s] = Finished(c, TRUE)]
           ELSE IF rows = {}
           THEN /\ user_permissions' = user_permissions
                /\ sessions' = [sessions EXCEPT ![s] = Finished(c, "raised")]
           ELSE /\ user_permissions' =
                      (user_permissions \ rows) \cup {Flushed(p, c) : p \in rows}
                /\ sessions' = [sessions EXCEPT ![s] = Finished(c, TRUE)]
    /\ UNCHANGED <<users, user_roles, roles, resources, role_permissions,
                   audit_logs, session_new, call, authvars, expansion, resp>>

\* _is_permission_granter
is_permission_granter(granter, target, rid, action) ==
    \E p \in SelectTriple(target, rid, action) : p.granted_by = granter

\* revoke_user_permission up to `await self.session.commit()`
RevokeBegin(s, granter, target, rid, action) ==
    /\ sessions[s].pc \in {"idle", "done"}
    /\ now < MaxTime
    /\ now' = now + 1
    /\ LET c == Begun("revoke", granter, target, rid, action, NULL, NoRow)
           can_revoke == \/ resources[rid].owner_id = granter
                         \/ is_permission_granter(granter, target, rid, action)
       IN  IF ~can_revoke
           THEN sessions' = [sessions EXCEPT ![s] = Finished(c, FALSE)]
           ELSE \E perm \in FirstOf(SelectTriple(target, rid, action)) :
                   IF perm = NoRow
                   THEN sessions' = [sessions EXCEPT ![s] = Finished(c, FALSE)]
                   ELSE sessions' = [sessions EXCEPT ![s] = [c EXCEPT !.existing = perm]]
    /\ UNCHANGED <<dbvars, audit_logs, session_new, call, authvars, expansion, resp>>

\* `await self.session.commit()` of revoke_user_permission: DELETE ... WHERE
\* id = the row loaded, then COMMIT
RevokeCommit(s) ==
    /\ sessions[s].pc = "commit"
    /\ sessions[s].op = "revoke"
    /\ now < MaxTime
    /\ now' = now + 1
    /\ user_permissions' =
          {p \in user_permissions : p.id # sessions[s].existing.id}
    /\ sessions' = [sessions EXCEPT ![s] = Finished(sessions[s], TRUE)]
    /\ UNCHANGED <<users, user_roles, roles, resources, role_permissions,
                   audit_logs, session_new, call, authvars, expansion, resp>>

\* The expiry a granter asks for: none, or an instant
GrantExpiries == {NULL, 5}

\* u1 owns r1; u2 holds a role that may carry an allow or a deny of SHARE on
\* documents; nobody is a superuser and no override is stored
InitGrants ==
    /\ now = 1
    /\ users = ("u1" :> UserRow(TRUE, FALSE, 1)) @@ ("u2" :> UserRow(TRUE, FALSE, 2))
    /\ roles = (1 :> RoleRow(5, TRUE, NULL))
    /\ user_roles = << UserRoleRow("u2", 1) >>
    /\ resources = ("r1" :> ResourceRow("u1", 1, FALSE, FALSE))
    /\ \E b \in BOOLEAN :
          role_permissions = << Grant(1, 1, "share", "all", b, CondNone) >>
    /\ user_permissions = {}
    /\ audit_logs = <<>>
    /\ session_new = <<>>
    /\ call = NoCall
    /\ tokens = {}
    /\ blacklist = <<>>
    /\ logged_out = {}
    /\ redis_up = TRUE
    /\ expansion = NoExpansion
    /\ sessions = NoSessions
    /\ resp = NoResponse

\* The user overrides are granted to and revoked from
GrantTargets == {"u2"}

\* The calls of the sessions in S, on the actions in A
NextGrantsOf(S, A) ==
    \/ \E s \in S, granter \in Users, target \in GrantTargets, action \in A,
          expires_at \in GrantExpiries :
           GrantBegin(s, granter, target, "r1", action, expires_at)
    \/ \E s \in S : GrantCommit(s)
    \/ \E s \in S, granter \in Users, target \in GrantTargets, action \in A :
           RevokeBegin(s, granter, target, "r1", action)
    \/ \E s \in S : RevokeCommit(s)

\* Calls run one at a time
NextGrants == NextGrantsOf({"s1"}, {"read", "update"})

SpecGrants == InitGrants /\ [][NextGrants]_vars

\* Two sessions run calls on one triple that interleave
NextGrantsRace == NextGrantsOf(SessionIds, {"read"})

SpecGrantsRace == InitGrants /\ [][NextGrantsRace]_vars

----------------------------------------------------------------------------
(* Properties of grants and revocations run one at a time (SpecGrants)      *)

\* The call of session s has returned True from grant_user_permission
Granted(s) ==
    /\ sessions[s].pc = "done"
    /\ sessions[s].op = "grant"
    /\ sessions[s].returned = TRUE

\* The call of session s ends in this step
Ends(s) == sessions'[s] # sessions[s] /\ sessions'[s].pc = "done"

\* At most one row per (user, resource, action), every row an allow
OneAllowRowPerTriple ==
    /\ \A p, q \in user_permissions :
          (p.user_id = q.user_id /\ p.resource_id = q.resource_id
           /\ p.action = q.action) => p = q
    /\ \A p \in user_permissions : p.is_allowed = TRUE

\* C26: calls run one at a time from an empty table keep at most one row per
\* triple, every row with is_allowed = true; a grant on a triple that has a
\* row, expired or not, writes that row and adds none.
C26_OneRowPerTriple ==
    /\ []OneAllowRowPerTriple
    /\ [][\A s \in SessionIds :
            (Ends(s) /\ sessions'[s].op = "grant" /\ sessions'[s].returned = TRUE
             /\ RowsOf(sessions'[s].target, sessions'[s].resource,
                       sessions'[s].action) # {})
                => /\ {p.id : p \in user_permissions'} = {p.id : p \in user_permissions}
                   /\ \A p \in user_permissions' :
                         (/\ p.user_id = sessions'[s].target
                          /\ p.resource_id = sessions'[s].resource
                          /\ p.action = sessions'[s].action)
                            => /\ p.expires_at = sessions'[s].expires_at
                               /\ p.granted_by = sessions'[s].granter]_vars

\* a grant found the row of its triple expired and wrote it again
C26_Witness ==
    /\ Granted("s1")
    /\ sessions["s1"].existing # NoRow
    /\ sessions["s1"].existing.expires_at # NULL
    /\ sessions["s1"].existing.expires_at <= sessions["s1"].began
    /\ \E p \in user_permissions :
          /\ RowsOf(sessions["s1"].target, "r1", sessions["s1"].action) = {p}
          /\ p.id = sessions["s1"].existing.id
          /\ p.expires_at = NULL

----------------------------------------------------------------------------
(* Properties of interleaved grants (SpecGrantsRace)                        *)

\* The calls of s and t were on one triple and each began before the other
\* committed; t committed last
InterleavedLast(s, t) ==
    /\ s # t
    /\ Granted(s) /\ Granted(t)
    /\ sessions[s].target = sessions[t].target
    /\ sessions[s].resource = sessions[t].resource
    /\ sessions[s].action = sessions[t].action
    /\ sessions[s].began < sessions[t].committed_at
    /\ sessions[t].began < sessions[s].committed_at
    /\ sessions[s].committed_at < sessions[t].committed_at

\* C23: when two grants of one triple interleave, the last writer wins: once
\* both have committed, the override in force for the triple carries the
\* granted_by and the expires_at of the call that committed last.
C23_LastWriterWins ==
    \A s, t \in SessionIds :
        (/\ InterleavedLast(s, t)
         /\ (sessions[t].expires_at = NULL \/ now < sessions[t].expires_at)) =>
            LET latest == LatestRows(sessions[t].target, sessions[t].resource,
                                     sessions[t].action)
            IN  /\ latest # {}
                /\ \A p \in latest : /\ p.granted_by = sessions[t].granter
                                      /\ p.expires_at = sessions[t].expires_at

\* check_permission(granter, resource, SHARE) is deny
ShareDenied(granter, rid) ==
    \A out \in check_permission(granter, Res(rid), "share", FALSE) :
        ~out.raised /\ ~out.verdict

\* check_permission on the triple is allow with reason "personal"
PersonalAllow(target, rid, action) ==
    \A out \in check_permission(target, Res(rid), action, FALSE) :
        ~out.raised /\ out.verdict /\ out.reason = "personal"

\* The grant session s made is in force: unless the expiry it asked for has
\* passed, the row check_permission goes by expires when it asked and the
\* target is allowed by the personal rule
InForce(s) ==
    LET c == sessions[s]
    IN  (c.expires_at = NULL \/ now < c.expires_at) =>
           /\ LatestRows(c.target, c.resource, c.action) # {}
           /\ \A p \in LatestRows(c.target, c.resource, c.action) :
                  p.expires_at = c.expires_at
           /\ PersonalAllow(c.target, c.resource, c.action)

\* Every stored override that has not expired allows its triple
StoredOverridesAllow ==
    \A p \in user_permissions :
        (~users[p.user_id].is_superuser /\ (p.expires_at = NULL \/ now < p.expires_at))
            => PersonalAllow(p.user_id, p.resource_id, p.action)

\* C25: a grant by a non-owner whom SHARE is denied returns False and writes
\* no row; a grant that returns True leaves the non-superuser target allowed
\* by the personal rule until the expires_at it asked for (for ever when
\* null), as long as the row is stored; the call adds no audit entry.
C25_GrantRefusedOrInForce ==
    /\ []StoredOverridesAllow
    /\ [][\A s \in SessionIds :
            (Ends(s) /\ sessions'[s].op = "grant") =>
                LET c == sessions'[s]
                IN  /\ (resources[c.resource].owner_id # c.granter
                        /\ ShareDenied(c.granter, c.resource)) => c.returned = FALSE
                    /\ c.returned # TRUE => user_permissions' = user_permissions
                    /\ (c.returned = TRUE /\ ~users[c.target].is_superuser)
                          => InForce(s)'
                    /\ session_new' = <<>>
                    /\ audit_logs' = audit_logs]_vars

\* check_permission on the triple is settled by the personal rule
PersonalSettles(target, rid, action) ==
    \E out \in check_permission(target, Res(rid), action, FALSE) :
        ~out.raised /\ out.reason = "personal"

\* ... the triple of the call of session s
PersonalSettlesFor(s) ==
    PersonalSettles(sessions[s].target, sessions[s].resource, sessions[s].action)

\* C27: revoke_user_permission returns False and writes nothing unless the
\* caller owns the resource or is the granted_by of a row of the triple, and
\* also when the triple has no row; when it returns True the row is deleted
\* and the personal rule no longer settles the triple.
C27_RevokeByOwnerOrGranter ==
    [][\A s \in SessionIds :
          (Ends(s) /\ sessions'[s].op = "revoke") =>
              LET c == sessions'[s]
              IN  /\ (/\ resources[c.resource].owner_id # c.granter
                      /\ ~is_permission_granter(c.granter, c.target, c.resource,
                                                c.action)) => c.returned = FALSE
                  /\ RowsOf(c.target, c.resource, c.action) = {}
                        => c.returned = FALSE
                  /\ c.returned = FALSE => user_permissions' = user_permissions
                  /\ c.returned = TRUE =>
                        /\ c.existing \notin user_permissions'
                        /\ ~PersonalSettlesFor(s)'
      ]_vars

----------------------------------------------------------------------------
(* SpecInterleave: update_resource and delete_resource, each request in a   *)
(* session of its own, cut at `await session.commit()`                      *)

\* The request ended with this status
Ended(op, user, rid, status) ==
    [pc |-> "done", op |-> op, user |-> user, resource |-> rid, status |-> status]

\* The handler up to its commit: the select of the resource, the is_archived
\* test, check_permission and, for an update, the assignments
LoadFor(s, op, action, user, rid, resource_data) ==
    /\ sessions[s].pc \in {"idle", "done"}
    /\ IF rid \notin DOMAIN resources \/ resources[rid].is_archived
       THEN sessions' = [sessions EXCEPT ![s] = Ended(op, user, rid, 404)]
       ELSE \E out \in check_permission(user, Res(rid), action, TRUE) :
               IF out.raised \/ ~out.verdict
               THEN sessions' = [sessions EXCEPT
                                   ![s] = Ended(op, user, rid, StatusOf(out, 200))]
               ELSE sessions' = [sessions EXCEPT ![s] =
                                   [pc |-> "commit", op |-> op, user |-> user,
                                    resource |-> rid, status |-> 0,
                                    loaded |-> resources[rid],
                                    resource_data |-> resource_data,
                                    added |-> out.added]]
    /\ UNCHANGED <<now, dbvars, audit_logs, session_new, call, authvars, expansion,
                   resp>>

\* PUT /resources/{resource_id} up to the commit
UpdateLoad(s, user, rid, resource_data) ==
    LoadFor(s, "update_resource", "update", user, rid, resource_data)

\* DELETE /resources/{resource_id} up to the commit
DeleteLoad(s, user, rid) ==
    LoadFor(s, "delete_resource", "delete", user, rid, [title |-> <<>>, is_public |-> <<>>])

\* The value a column gets from the flush: the one assigned when it differs
\* from the one loaded, else the stored one
Written(assigned, loaded, stored) ==
    IF assigned # <<>> /\ assigned[1] # loaded THEN assigned[1] ELSE stored

\* `await session.commit()` of update_resource: UPDATE resources SET the
\* assigned columns WHERE id = resource_id, the AuditLog INSERT, COMMIT
UpdateCommit(s) ==
    /\ sessions[s].pc = "commit"
    /\ sessions[s].op = "update_resource"
    /\ Len(audit_logs) < MaxAudit
    /\ LET c == sessions[s]
       IN  /\ resources' =
                [resources EXCEPT
                   ![c.resource].title =
                       Written(c.resource_data.title, c.loaded.title, @),
                   ![c.resource].is_public =
                       Written(c.resource_data.is_public, c.loaded.is_public, @)]
           /\ Commit(c.added)
           /\ sessions' = [sessions EXCEPT
                              ![s] = Ended(c.op, c.user, c.resource, 200)]
    /\ UNCHANGED <<now, users, user_roles, roles, role_permissions,
                   user_permissions, session_new, call, authvars, expansion, resp>>

\* `await session.commit()` of delete_resource: UPDATE resources SET
\* is_archived = true WHERE id = resource_id, the AuditLog INSERT, COMMIT
DeleteCommit(s) ==
    /\ sessions[s].pc = "commit"
    /\ sessions[s].op = "delete_resource"
    /\ Len(audit_logs) < MaxAudit
    /\ LET c == sessions[s]
       IN  /\ resources' = [resources EXCEPT ![c.resource].is_archived = TRUE]
           /\ Commit(c.added)
           /\ sessions' = [sessions EXCEPT
                              ![s] = Ended(c.op, c.user, c.resource, 200)]
    /\ UNCHANGED <<now, users, user_roles, roles, role_permissions,
                   user_permissions, session_new, call, authvars, expansion, resp>>

NextInterleave ==
    \/ \E s \in SessionIds, user \in Actors, resource_data \in ResourceUpdate :
          UpdateLoad(s, user, "r1", resource_data)
    \/ \E s \in SessionIds : UpdateCommit(s)
    \/ \E s \in SessionIds, user \in Actors : DeleteLoad(s, user, "r1")
    \/ \E s \in SessionIds : DeleteCommit(s)

SpecInterleave == InitResources /\ [][NextInterleave]_vars

\* C30: in every interleaving, no update_resource commit changes the title
\* or is_public of a resource that is archived when the commit happens.
C30_NoWriteToArchived ==
    [][\A s \in SessionIds :
          (/\ sessions[s].pc = "commit"
           /\ sessions[s].op = "update_resource"
           /\ sessions'[s].pc = "done"
           /\ resources[sessions[s].resource].is_archived)
             => /\ resources'[sessions[s].resource].title
                     = resources[sessions[s].resource].title
                /\ resources'[sessions[s].resource].is_public
                     = resources[sessions[s].resource].is_public]_vars

----------------------------------------------------------------------------
(* check_permission on a resource object that is not loaded from a row      *)

\* One check_permission call on such an object
CheckTransient(user, owner, category_id, action, log_attempt) ==
    /\ call = NoCall
    /\ session_new = <<>>
    /\ \E out \in check_permission(user, Transient(owner, category_id), action,
                                   log_attempt) :
          /\ call' = CallOf(user, "temp", action, log_attempt, out)
          /\ session_new' = out.added
    /\ UNCHANGED <<now, dbvars, audit_logs, authvars, expansion, sessions, resp>>

NextTransient ==
    \/ \E user \in Users, rid \in DOMAIN resources, action \in ActionType,
          log_attempt \in BOOLEAN :
           CheckPermission(user, rid, action, log_attempt)
    \/ \E user \in Users, owner \in Users, category_id \in DOMAIN Categories,
          action \in ActionType, log_attempt \in BOOLEAN :
           CheckTransient(user, owner, category_id, action, log_attempt)

SpecTransient == InitScope /\ [][NextTransient]_vars

\* C18: a failure of the audit step neither changes nor blocks the result.
\* A call that logs returns, without raising, the verdict that the same call
\* returns when it does not log (log_attempt = False leaves _log_access out,
\* so that call gives the verdict of the precedence chain alone).
C18_AuditFailureDoesNotBlock ==
    [][\A user \in Users, owner \in Users, category_id \in DOMAIN Categories,
         action \in ActionType :
           CheckTransient(user, owner, category_id, action, TRUE) =>
              \E out \in check_permission(user, Transient(owner, category_id),
                                          action, FALSE) :
                  /\ call'.raised = out.raised
                  /\ call'.verdict = out.verdict]_vars

====
